---- MODULE Spec2Model ----
(***************************************************************************)
(* RebarWeb: the edge application (src/master.py).                         *)
(*                                                                         *)
(* Units.  The program computes with floats; the model uses fixed point:   *)
(*   diameter_mm            hundredths of a millimetre                     *)
(*   width/length/height_cm tenths of a centimetre before round(.,2),      *)
(*                          hundredths after it                            *)
(*   volume_cc              thousandths of a cc before round(.,2),         *)
(*                          hundredths after it                            *)
(*   confidence             1e-4 before round(.,3), thousandths after it   *)
(* A timestamp is the second time.strftime formats; 0 stands for None.     *)
(***************************************************************************)
EXTENDS Integers, Sequences, FiniteSets, TLC

\* ------------------------------------------------------------------ bounds
NumApiThreads == 1
MaxClock == 2
MaxQueue == 4
MaxPublications == 1
MaxTiers == 3
MaxBroadcasts == 3
MaxCandidates == 3
MaxPending == 2

\* ------------------------------------------------------- program constants
\* mm_per_pixel = 0.1, in hundredths of a millimetre per pixel
MmPerPixel == 10
\* the factor 0.1 of length_cm and width_cm, in tenths of a centimetre per pixel
CmPerPixel == 1
\* latest_analysis["timestamp"] = None
None == 0
\* SCORE_THRESH_TEST = 0.7, in hundredths
DefaultThreshold == 70

\* ------------------------------------------------------------- arithmetic
\* round(): n/d rounded to an integer, ties to even
RoundHalfEven(n, d) ==
    LET q == n \div d
        r == n % d
    IN  IF 2 * r > d \/ (2 * r = d /\ q % 2 = 1) THEN q + 1 ELSE q

\* round(x, 2) of a length held in tenths: the result in hundredths
Round2Linear(x) == RoundHalfEven(x * 100, 10)
\* round(volume_cc, 2) of a volume held in thousandths: the result in hundredths
Round2Volume(v) == RoundHalfEven(v, 10)
\* round(score, 3) of a score held in 1e-4: the result in thousandths
Round3Score(s) == RoundHalfEven(s, 10)

Min2(a, b) == IF a <= b THEN a ELSE b

\* ------------------------------------------------------------------ tiers
\* self.cement_ratios: a dict in insertion (file) order, as a sequence of entries
Tier(n, c, s, a, lo, hi) ==
    [name |-> n, cement |-> c, sand |-> s, aggregate |-> a,
     has_range |-> TRUE, min_diam |-> lo, max_diam |-> hi]

DefaultRatios ==
    << Tier("small", 1, 2, 3, 6, 12),
       Tier("medium", 1, 2, 4, 12, 20),
       Tier("large", 1, 3, 5, 20, 50) >>

\* min_diam <= diameter_mm < max_diam, diameter_mm in hundredths of a millimetre
InRangeMaxInclusive(info, diameter_mm) ==
    /\ info.has_range
    /\ info.min_diam * 100 <= diameter_mm
    /\ diameter_mm <= info.max_diam * 100

InRange(info, diameter_mm) ==
    /\ info.has_range
    /\ info.min_diam * 100 <= diameter_mm
    /\ diameter_mm < info.max_diam * 100

\* size = "small"; for category, info in items(): first match in dict order, break
SizeCategory(ratios, diameter_mm) ==
    LET hits == {i \in 1..Len(ratios) : InRange(ratios[i], diameter_mm)}
    IN  IF hits = {} THEN "small"
        ELSE ratios[CHOOSE i \in hits : \A j \in hits : i <= j].name

\* ratio = self.cement_ratios[size]: the entry of that key, or a KeyError
HasKey(ratios, size) == \E i \in 1..Len(ratios) : ratios[i].name = size
Lookup(ratios, size) == ratios[CHOOSE i \in 1..Len(ratios) : ratios[i].name = size]

\* ------------------------------------------------------------ measurement
\* What the two detection models return on a frame: the primary candidates'
\* scores in output order, and the sections in output order (box, score).
Sec(x1, y1, x2, y2, s) == [box |-> <<x1, y1, x2, y2>>, score |-> s]

\* one primary box of score 0.91, sections (10,10,30,50) and (40,10,70,60)
SceneTwoSections ==
    [primary |-> <<9100>>,
     sections |-> << Sec(10, 10, 30, 50, 9530), Sec(40, 10, 70, 60, 8876) >>]
\* one section whose volume needs rounding: 3 x 7 pixels
SceneSmallSection ==
    [primary |-> <<8000, 9100>>, sections |-> << Sec(0, 0, 3, 7, 7004) >>]
SceneNoSections == [primary |-> <<7500>>, sections |-> << >>]
SceneNoRebar == [primary |-> << >>, sections |-> << >>]
\* sections on both sides of a boundary of the default tiers, and one of 1 x 1
SceneBoundaries ==
    [primary |-> <<9100>>,
     sections |-> << Sec(0, 0, 119, 130, 9000), Sec(0, 0, 130, 120, 9000),
                     Sec(5, 5, 6, 6, 6000) >>]
\* captured_frame = None
NoFrame == [none |-> TRUE]

width_px(box) == box[3] - box[1]
height_px(box) == box[4] - box[2]
diameter_px(box) == Min2(width_px(box), height_px(box))
\* diameter_mm = diameter_px * mm_per_pixel
diameter_mm(box) == diameter_px(box) * MmPerPixel

length_cm_of_width(box) == width_px(box) * CmPerPixel
\* length_cm = height_px * 0.1
length_cm(box) == height_px(box) * CmPerPixel
\* width_cm = width_px * 0.1
width_cm(box) == width_px(box) * CmPerPixel
\* height_cm = width_cm
height_cm(box) == width_cm(box)
volume_cc_without_height(box) == length_cm(box) * width_cm(box)
\* volume_cc = length_cm * width_cm * height_cm
volume_cc(box) == length_cm(box) * width_cm(box) * height_cm(box)

\* section_result (master.py 846-859) joined with the timestamp (863-866)
SectionData(ratios, ts, i, sec) ==
    LET size == SizeCategory(ratios, diameter_mm(sec.box))
        ratio == Lookup(ratios, size)
    IN  [timestamp |-> ts,
         section_id |-> i,
         size_category |-> size,
         diameter_mm |-> diameter_mm(sec.box),
         confidence |-> Round3Score(sec.score),
         width_cm |-> Round2Linear(width_cm(sec.box)),
         length_cm |-> Round2Linear(length_cm(sec.box)),
         height_cm |-> Round2Linear(height_cm(sec.box)),
         volume_cc |-> Round2Volume(volume_cc(sec.box)),
         cement_ratio |-> ratio.cement,
         sand_ratio |-> ratio.sand,
         aggregate_ratio |-> ratio.aggregate,
         bbox |-> sec.box]

\* the segment update_api_data builds from one entry of current_results
ApiSegment(result) ==
    [section_id |-> result.section_id,
     size_category |-> result.size_category,
     diameter_mm |-> result.diameter_mm,
     confidence |-> result.confidence,
     width_cm |-> result.width_cm,
     length_cm |-> result.length_cm,
     height_cm |-> result.height_cm,
     volume_cc |-> result.volume_cc,
     bbox |-> result.bbox]

ApiSegments(results) == [i \in 1..Len(results) |-> ApiSegment(results[i])]

RECURSIVE TotalSkippingFirst(_, _)
TotalSkippingFirst(segments, n) ==
    IF n <= 1 THEN 0
    ELSE TotalSkippingFirst(segments, n - 1) + segments[n].volume_cc

\* total_volume = 0; total_volume += segment["volume_cc"] over the first n segments
RECURSIVE TotalVolume(_, _)
TotalVolume(segments, n) ==
    IF n = 0 THEN 0
    ELSE TotalVolume(segments, n - 1) + segments[n].volume_cc

ArgMaxLast(scores) ==
    CHOOSE i \in 1..Len(scores) :
        /\ \A j \in 1..Len(scores) : scores[j] <= scores[i]
        /\ \A j \in (i + 1)..Len(scores) : scores[j] < scores[i]

\* best_idx = np.argmax(scores): the first index of the maximum
ArgMax(scores) ==
    CHOOSE i \in 1..Len(scores) :
        /\ \A j \in 1..Len(scores) : scores[j] <= scores[i]
        /\ \A j \in 1..(i - 1) : scores[j] < scores[i]

\* ------------------------------------------------------------------ state
VARIABLES
    app_instance,       \* TRUE once main() has built RebarAnalysisApp
    cement_ratios,      \* self.cement_ratios
    is_processing,      \* self.is_processing
    current_results,    \* self.current_results
    captured_frame,     \* self.captured_frame
    current_timestamp,  \* self.current_timestamp
    result_image,       \* self.result_image
    camera_paused,      \* self.camera_paused
    camera,             \* self.camera: "None", "opened" or "closed"
    btn_state,          \* capture_btn state: "normal" or "disabled"
    btn_cmd,            \* capture_btn command: "capture" or "resume"
    latest_analysis,    \* the global latest_analysis
    tkqueue,            \* callbacks handed to root.after(0, ...), in order
    clock,              \* the wall clock, in seconds
    pc,                 \* where each thread that runs capture_image stands
    wpc,                \* where the _do_capture thread started by each stands
    run,                \* run[t]: the run thread t started is between its
                        \* is_processing = True and its is_processing = False
    http_capture,       \* the last response of POST /api/capture per API thread
    ui,                 \* locals of the UI thread inside _do_analyze
    published,          \* the snapshots completed update_api_data calls left
    rl_pc, rl,          \* the thread serving GET /api/latest, and its locals
    resp_latest,        \* the last response of GET /api/latest
    ri_pc,              \* the thread serving GET /api/latest_image
    resp_image,         \* the last response of GET /api/latest_image
    probe,              \* a diameter put to the tier scan, and its result
    resp_status,        \* the last response of GET /api/status
    detection_threshold, \* rebar_cfg.MODEL.ROI_HEADS.SCORE_THRESH_TEST, in hundredths
    camera_index,       \* self.camera_index
    http_config,        \* the last request of POST /api/config and its response
    resp_config,        \* the last response of GET /api/config
    latest_data,        \* app.py: the relay's global latest_data
    poll,               \* app.py: where get_raspi_data stands, and its locals
    emitted,            \* app.py: what the current poll cycle gave socketio.emit
    observed,           \* app.py: the timestamps fetched and the new_data sent
    received,           \* app.py: the events a connecting client was sent
    camera_session,     \* the index the handle in self.camera was opened on
    handle,             \* per thread: the cv2.VideoCapture it is constructing
    since,              \* the threads whose run started after the last change
                        \* of camera_index
    preview_loop,       \* the number of update_preview chains kept alive
                        \* with root.after, counted up to MaxPending: each
                        \* update_preview ends by scheduling the next one
    stamp,              \* per thread: the timestamp its run's _do_capture took
    relay_http          \* app.py: the answer of the relay's last forwarded
                        \* operation, and what the edge answered to it

vars ==
    << app_instance, cement_ratios, is_processing, current_results,
       captured_frame, current_timestamp, result_image, camera_paused, camera,
       btn_state, btn_cmd, latest_analysis, tkqueue, clock, pc, wpc, run, http_capture, ui, published, rl_pc, rl, resp_latest, ri_pc, resp_image,
       probe, resp_status, detection_threshold, camera_index, http_config,
       resp_config, latest_data, poll, emitted, observed, received,
       camera_session, handle, since, preview_loop, stamp, relay_http >>

\* the state of POST and GET /api/config
configvars == << detection_threshold, camera_index, http_config, resp_config >>
\* the state of the relay (src/app.py)
relayvars == << latest_data, poll, emitted, observed >>
\* the camera session
camvars == << camera_session, handle, since >>

ApiThreads == 1..NumApiThreads
UiThread == 0
Threads == {UiThread} \cup ApiThreads

\* the scenes the camera of the capture model can show
Scenes == {SceneTwoSections, SceneNoRebar}

NoImage == [none |-> TRUE]
\* the annotated picture detect_sections draws on a frame
ResultImage(frame) == [of |-> frame.sections]
\* base64 of the JPEG of the picture
EncodeImage(image) == [b64 |-> image.of]

\* latest_analysis as initialised at import (master.py 31-37)
EmptyAnalysis ==
    [timestamp |-> None, image |-> NoImage, segments |-> << >>, total_volume |-> 0]

NoResponse == [none |-> TRUE]
NoProbe == [none |-> TRUE]
UiIdle ==
    [frame |-> NoFrame, run |-> UiThread, i |-> 0, segments |-> << >>,
     total_volume |-> 0]

\* the threshold load_models sets (master.py 292) and get_config reports without
\* an application (1205); camera_index = 0 (81); no request served yet
ConfigDefaults ==
    /\ detection_threshold = DefaultThreshold
    /\ camera_index = 0
    /\ http_config = NoResponse
    /\ resp_config = NoResponse
    /\ resp_status = NoResponse

\* app.py 24-30: latest_data at import
InitialData ==
    [connected |-> FALSE, last_image |-> NoImage, last_results |-> << >>,
     last_update |-> None, total_volume |-> 0]

\* the locals of get_raspi_data at the top of the while loop
PollStart ==
    [pc |-> "check_status", connected |-> FALSE, old_connected |-> FALSE,
     data |-> NoResponse]

\* what is remembered of the poll loop's past: the timestamps it fetched and
\* those it sent in new_data, whether any request failed so far; of the
\* previous cycle its connected value and the timestamp it fetched (or
\* NoResponse); of the current cycle latest_data at its start, and whether a
\* request failed and whether the status probe passed and the data probe failed
NoHistory ==
    [fetched |-> {}, new_data |-> << >>, failed |-> FALSE,
     last_connected |-> FALSE, last_fetched |-> NoResponse,
     before |-> InitialData, failure |-> FALSE, probe_failed |-> FALSE]

\* self.root.after(.., self.update_preview) at the end of an update_preview
\* that was called directly: the call leaves one more callback in the timer
\* queue, and the ones already there are not cancelled
Scheduled(n) == IF n < MaxPending THEN n + 1 ELSE n

\* no VideoCapture under construction
NoHandle == [none |-> TRUE]

CameraStart ==
    /\ camera_session = 0
    /\ handle = [t \in Threads |-> NoHandle]
    /\ since = {}
    /\ preview_loop = 0

RelayStart ==
    /\ received = << >>
    /\ relay_http = NoResponse
    /\ latest_data = InitialData
    /\ poll = PollStart
    /\ emitted = << >>
    /\ observed = NoHistory

InitCommon ==
    /\ ConfigDefaults
    /\ CameraStart
    /\ RelayStart
    /\ app_instance = FALSE
    /\ is_processing = FALSE
    /\ current_results = << >>
    /\ captured_frame = NoFrame
    /\ current_timestamp = None
    /\ stamp = [t \in Threads |-> None]
    /\ result_image = NoImage
    /\ camera_paused = FALSE
    /\ camera = "None"
    /\ btn_state = "normal"
    /\ btn_cmd = "capture"
    /\ latest_analysis = EmptyAnalysis
    /\ tkqueue = << >>
    /\ clock = 1
    /\ pc = [t \in Threads |-> "idle"]
    /\ wpc = [t \in Threads |-> "none"]
    /\ run = [t \in Threads |-> FALSE]
    /\ http_capture = [t \in ApiThreads |-> NoResponse]
    /\ ui = UiIdle
    /\ published = {}
    /\ rl_pc = "idle"
    /\ rl = EmptyAnalysis
    /\ resp_latest = NoResponse
    /\ ri_pc = "idle"
    /\ resp_image = NoResponse
    /\ probe = NoProbe

Init ==
    /\ InitCommon
    /\ cement_ratios = DefaultRatios

\* ------------------------------------------------------------ start-up
\* cv2.VideoCapture(index) opens the device or not; initialize_camera raises
\* when it did not, leaving the unopened handle in self.camera
InitializeCamera(opens) ==
    /\ camera' = IF opens THEN "opened" ELSE "closed"
    /\ camera_session' = camera_index

\* main(): app_instance = RebarAnalysisApp(root), after the API thread started
CreateApp ==
    /\ ~app_instance
    /\ app_instance' = TRUE
    /\ \E opens \in BOOLEAN : InitializeCamera(opens)
                               /\ preview_loop' = IF opens THEN 1 ELSE 0
    /\ UNCHANGED << cement_ratios, is_processing, current_results,
                    captured_frame, current_timestamp, result_image,
                    camera_paused, btn_state, btn_cmd, latest_analysis,
                    tkqueue, clock, pc, wpc, run, http_capture, ui,
                    published, rl_pc, rl, resp_latest, ri_pc, resp_image,
                    probe,
                    resp_status, configvars, relayvars, handle, since,
                    received, stamp, relay_http >>

\* -------------------------------------------------------------- triggers
\* threads inside capture_image, and runs not yet back to Idle
InFlight == {t \in Threads : pc[t] # "idle" \/ run[t] \/ wpc[t] # "none"}
\* every run in flight still hands at most two callbacks to the Tk queue
QueueRoom == Len(tkqueue) + 2 * Cardinality(InFlight) + 2 <= MaxQueue
\* triggers are taken while fewer than MaxPublications snapshots were published
Room == QueueRoom /\ Cardinality(published) < MaxPublications

\* POST /api/capture: threading.Thread(target=app_instance.capture_image).start()
TriggerCapture(t) ==
    /\ pc[t] = "idle" /\ wpc[t] = "none" /\ ~run[t]
    /\ IF app_instance
       THEN /\ Room
            /\ pc' = [pc EXCEPT ![t] = "ci_check"]
            /\ http_capture' =
                   [http_capture EXCEPT ![t] = [status |-> 200, busy |-> is_processing]]
       ELSE /\ pc' = pc
            /\ http_capture' =
                   [http_capture EXCEPT ![t] = [status |-> 500, busy |-> is_processing]]
    /\ UNCHANGED << app_instance, cement_ratios, is_processing, current_results,
                    captured_frame, current_timestamp, result_image,
                    camera_paused, camera, btn_state, btn_cmd, latest_analysis,
                    tkqueue, clock, wpc, run, ui, published, rl_pc, rl,
                    resp_latest, ri_pc, resp_image, probe,
                    resp_status, configvars, relayvars, camvars, preview_loop,
                    received, stamp >>

\* the operator presses the button while it reads "Capture & Analyze"
ClickCapture ==
    /\ app_instance
    /\ pc[UiThread] = "idle" /\ wpc[UiThread] = "none" /\ ~run[UiThread]
    /\ btn_state = "normal" /\ btn_cmd = "capture"
    /\ Room
    /\ pc' = [pc EXCEPT ![UiThread] = "ci_check"]
    /\ UNCHANGED << app_instance, cement_ratios, is_processing, current_results,
                    captured_frame, current_timestamp, result_image,
                    camera_paused, camera, btn_state, btn_cmd, latest_analysis,
                    tkqueue, clock, wpc, run, http_capture, ui, published,
                    rl_pc, rl, resp_latest, ri_pc, resp_image, probe,
                    resp_status, configvars, relayvars, camvars, preview_loop,
                    received, stamp, relay_http >>

\* the operator presses the button while it reads "Return to Camera"
ResumeCameraPreview ==
    /\ app_instance
    /\ pc[UiThread] = "idle"
    /\ btn_state = "normal" /\ btn_cmd = "resume"
    /\ camera_paused' = FALSE
    /\ btn_cmd' = "capture"
    /\ preview_loop' = Scheduled(preview_loop)
    /\ pc' = [pc EXCEPT ![UiThread] =
                 IF ~is_processing /\ camera = "opened" THEN "pv_read" ELSE @]
    /\ UNCHANGED << app_instance, cement_ratios, is_processing, current_results,
                    captured_frame, current_timestamp, result_image, camera,
                    btn_state, latest_analysis, tkqueue, clock, wpc,
                    run, http_capture, ui, published, rl_pc, rl,
                    resp_latest, ri_pc, resp_image, probe,
                    resp_status, configvars, relayvars, camvars, received, stamp, relay_http >>

\* ---------------------------------------------------------- capture_image
CaptureCheckUnlessPaused(t) ==
    /\ pc[t] = "ci_check"
    /\ pc' = [pc EXCEPT ![t] = IF is_processing \/ camera_paused
                               THEN "ci_ignored" ELSE "ci_set"]
    /\ UNCHANGED << app_instance, cement_ratios, is_processing, current_results,
                    captured_frame, current_timestamp, result_image,
                    camera_paused, camera, btn_state, btn_cmd, latest_analysis,
                    tkqueue, clock, wpc, run, http_capture, ui, published,
                    rl_pc, rl, resp_latest, ri_pc, resp_image, probe,
                    resp_status, configvars, relayvars, camvars, preview_loop,
                    received, stamp, relay_http >>

\* the test "if self.is_processing:"
CaptureCheck(t) ==
    /\ pc[t] = "ci_check"
    /\ pc' = [pc EXCEPT ![t] = IF is_processing THEN "ci_ignored" ELSE "ci_set"]
    /\ UNCHANGED << app_instance, cement_ratios, is_processing, current_results,
                    captured_frame, current_timestamp, result_image,
                    camera_paused, camera, btn_state, btn_cmd, latest_analysis,
                    tkqueue, clock, wpc, run, http_capture, ui, published,
                    rl_pc, rl, resp_latest, ri_pc, resp_image, probe,
                    resp_status, configvars, relayvars, camvars, preview_loop,
                    received, stamp, relay_http >>

\* the thread of a request ends: its response is no longer looked at
ThreadEnds(t) ==
    http_capture' =
        [a \in ApiThreads |-> IF a = t THEN NoResponse ELSE http_capture[a]]

CaptureRejectedStartsWorker(t) ==
    /\ pc[t] = "ci_ignored"
    /\ pc' = [pc EXCEPT ![t] = "idle"]
    /\ wpc' = [wpc EXCEPT ![t] = "dc_reset"]
    /\ ThreadEnds(t)
    /\ UNCHANGED << app_instance, cement_ratios, is_processing, current_results,
                    captured_frame, current_timestamp, result_image,
                    camera_paused, camera, btn_state, btn_cmd, latest_analysis,
                    tkqueue, clock, run, ui, published, rl_pc, rl,
                    resp_latest, ri_pc, resp_image, probe,
                    resp_status, configvars, relayvars, camvars, preview_loop,
                    received, stamp, relay_http >>

\* print("Already processing, ignoring capture request"); return
CaptureRejected(t) ==
    /\ pc[t] = "ci_ignored"
    /\ pc' = [pc EXCEPT ![t] = "idle"]
    /\ ThreadEnds(t)
    /\ UNCHANGED << app_instance, cement_ratios, is_processing, current_results,
                    captured_frame, current_timestamp, result_image,
                    camera_paused, camera, btn_state, btn_cmd, latest_analysis,
                    tkqueue, clock, wpc, run, ui, published, rl_pc, rl,
                    resp_latest, ri_pc, resp_image, probe,
                    resp_status, configvars, relayvars, camvars, preview_loop,
                    received, stamp, relay_http >>

\* self.is_processing = True
CaptureSet(t) ==
    /\ pc[t] = "ci_set"
    /\ is_processing' = TRUE
    /\ run' = [run EXCEPT ![t] = TRUE]
    /\ since' = since \cup {t}
    /\ pc' = [pc EXCEPT ![t] = "ci_spawn"]
    /\ UNCHANGED << app_instance, cement_ratios, current_results,
                    captured_frame, current_timestamp, result_image,
                    camera_paused, camera, btn_state, btn_cmd, latest_analysis,
                    tkqueue, clock, wpc, http_capture, ui, published, rl_pc,
                    rl, resp_latest, ri_pc, resp_image, probe,
                    resp_status, configvars, relayvars, camera_session,
                    handle, preview_loop, received, stamp, relay_http >>

\* capture_btn.config(state=DISABLED) ... threading.Thread(target=self._do_capture).start()
CaptureSpawn(t) ==
    /\ pc[t] = "ci_spawn"
    /\ btn_state' = "disabled"
    /\ wpc' = [wpc EXCEPT ![t] = "dc_reset"]
    /\ pc' = [pc EXCEPT ![t] = "idle"]
    /\ ThreadEnds(t)
    /\ UNCHANGED << app_instance, cement_ratios, is_processing, current_results,
                    captured_frame, current_timestamp, result_image,
                    camera_paused, camera, btn_cmd, latest_analysis, tkqueue,
                    clock, run, ui, published, rl_pc,
                    rl, resp_latest, ri_pc, resp_image, probe,
                    resp_status, configvars, relayvars, camvars, preview_loop,
                    received, stamp, relay_http >>

\* ------------------------------------------------------------ _do_capture
\* self.current_results = []
DoCaptureReset(t) ==
    /\ wpc[t] = "dc_reset"
    /\ current_results' = << >>
    /\ wpc' = [wpc EXCEPT ![t] = "dc_camera"]
    /\ UNCHANGED << app_instance, cement_ratios, is_processing, captured_frame,
                    current_timestamp, result_image, camera_paused, camera,
                    btn_state, btn_cmd, latest_analysis, tkqueue, clock, pc,
                    run, http_capture, ui, published, rl_pc, rl,
                    resp_latest, ri_pc, resp_image, probe,
                    resp_status, configvars, relayvars, camvars, preview_loop,
                    received, stamp, relay_http >>

\* if self.camera is None or not self.camera.isOpened(): self.initialize_camera()
DoCaptureCamera(t) ==
    /\ wpc[t] = "dc_camera"
    /\ IF camera # "opened"
       THEN \E opens \in BOOLEAN :
                /\ InitializeCamera(opens)
                /\ wpc' = [wpc EXCEPT ![t] = IF opens THEN "dc_read" ELSE "dc_fail"]
       ELSE /\ UNCHANGED << camera, camera_session >>
            /\ wpc' = [wpc EXCEPT ![t] = "dc_read"]
    /\ UNCHANGED << app_instance, cement_ratios, is_processing, current_results,
                    captured_frame, current_timestamp, result_image,
                    camera_paused, btn_state, btn_cmd, latest_analysis,
                    tkqueue, clock, pc, run, http_capture, ui,
                    published, rl_pc, rl, resp_latest, ri_pc, resp_image,
                    probe,
                    resp_status, configvars, relayvars, handle, since,
                    preview_loop, received, stamp, relay_http >>

\* the five warm-up reads and ret, frame = self.camera.read();
\* self.captured_frame = frame, or the raise of "Failed to capture frame"
DoCaptureRead(t) ==
    /\ wpc[t] = "dc_read"
    /\ \E ret \in BOOLEAN, frame \in Scenes :
           IF ret /\ camera = "opened"
           THEN /\ captured_frame' = frame
                /\ wpc' = [wpc EXCEPT ![t] = "dc_stamp"]
           ELSE /\ captured_frame' = captured_frame
                /\ wpc' = [wpc EXCEPT ![t] = "dc_fail"]
    /\ UNCHANGED << app_instance, cement_ratios, is_processing, current_results,
                    current_timestamp, result_image, camera_paused, camera,
                    btn_state, btn_cmd, latest_analysis, tkqueue, clock, pc,
                    run, http_capture, ui, published, rl_pc, rl,
                    resp_latest, ri_pc, resp_image, probe,
                    resp_status, configvars, relayvars, camvars, preview_loop,
                    received, stamp, relay_http >>

\* the seconds time.strftime can read now: the clock never runs backwards
Now == {clock} \cup (IF clock < MaxClock THEN {clock + 1} ELSE {})

\* self.current_timestamp = time.strftime("%Y%m%d-%H%M%S")
DoCaptureStamp(t) ==
    /\ wpc[t] = "dc_stamp"
    /\ \E now \in Now :
           /\ clock' = now
           /\ current_timestamp' = now
           /\ stamp' = [stamp EXCEPT ![t] = now]
    /\ wpc' = [wpc EXCEPT ![t] = "dc_sched"]
    /\ UNCHANGED << app_instance, cement_ratios, is_processing, current_results,
                    captured_frame, result_image, camera_paused, camera,
                    btn_state, btn_cmd, latest_analysis, tkqueue, pc, run, http_capture, ui, published, rl_pc, rl, resp_latest,
                    ri_pc, resp_image, probe,
                    resp_status, configvars, relayvars, camvars, preview_loop,
                    received, relay_http >>

\* self.root.after(0, self._do_analyze)
DoCaptureSchedule(t) ==
    /\ wpc[t] = "dc_sched"
    /\ tkqueue' = Append(tkqueue, [cb |-> "do_analyze", run |-> t])
    /\ wpc' = [wpc EXCEPT ![t] = "none"]
    /\ UNCHANGED << app_instance, cement_ratios, is_processing, current_results,
                    captured_frame, current_timestamp, result_image,
                    camera_paused, camera, btn_state, btn_cmd, latest_analysis,
                    clock, pc, run, http_capture, ui, published,
                    rl_pc, rl, resp_latest, ri_pc, resp_image, probe,
                    resp_status, configvars, relayvars, camvars, preview_loop,
                    received, stamp, relay_http >>

\* the except branch without its reset of the flag
DoCaptureFailStaysBusy(t) ==
    /\ wpc[t] = "dc_fail"
    /\ tkqueue' = Append(tkqueue, [cb |-> "enable_btn", run |-> UiThread])
    /\ UNCHANGED << is_processing, run >>
    /\ wpc' = [wpc EXCEPT ![t] = "dc_restart"]
    /\ UNCHANGED << app_instance, cement_ratios, current_results,
                    captured_frame, current_timestamp, result_image,
                    camera_paused, camera, btn_state, btn_cmd, latest_analysis,
                    clock, pc, http_capture, ui, published, rl_pc, rl,
                    resp_latest, ri_pc, resp_image, probe,
                    resp_status, configvars, relayvars, camvars, preview_loop,
                    received, stamp, relay_http >>
\* except: root.after(0, <re-enable the button>); self.is_processing = False
DoCaptureFail(t) ==
    /\ wpc[t] = "dc_fail"
    /\ tkqueue' = Append(tkqueue, [cb |-> "enable_btn", run |-> UiThread])
    /\ is_processing' = FALSE
    /\ run' = [run EXCEPT ![t] = FALSE]
    /\ wpc' = [wpc EXCEPT ![t] = "dc_restart"]
    /\ UNCHANGED << app_instance, cement_ratios, current_results,
                    captured_frame, current_timestamp, result_image,
                    camera_paused, camera, btn_state, btn_cmd, latest_analysis,
                    clock, pc, http_capture, ui, published, rl_pc, rl,
                    resp_latest, ri_pc, resp_image, probe,
                    resp_status, configvars, relayvars, camvars, preview_loop,
                    received, stamp, relay_http >>

\* self.restart_camera(): self.camera.release(); self.camera = None, and
\* time.sleep(1) begins
DoCaptureRestart(t) ==
    /\ wpc[t] = "dc_restart"
    /\ camera' = "None"
    /\ wpc' = [wpc EXCEPT ![t] = "dc_sleep"]
    /\ UNCHANGED << app_instance, cement_ratios, is_processing, current_results,
                    captured_frame, current_timestamp, result_image,
                    camera_paused, btn_state, btn_cmd, latest_analysis,
                    tkqueue, clock, pc, run, http_capture, ui,
                    published, rl_pc, rl, resp_latest, ri_pc, resp_image,
                    probe, resp_status, configvars, relayvars, camvars,
                    preview_loop, received, stamp, relay_http >>

\* initialize_camera(): a camera put there during the sleep is released, and
\* cv2.VideoCapture(self.camera_index) has read the index and opens the device
DoCaptureReopen(t) ==
    /\ wpc[t] = "dc_sleep"
    /\ camera' = "None"
    /\ handle' = [handle EXCEPT ![t] = [index |-> camera_index]]
    /\ wpc' = [wpc EXCEPT ![t] = "dc_reopen"]
    /\ UNCHANGED << app_instance, cement_ratios, is_processing, current_results,
                    captured_frame, current_timestamp, result_image,
                    camera_paused, btn_state, btn_cmd, latest_analysis,
                    tkqueue, clock, pc, run, http_capture, ui,
                    published, rl_pc, rl, resp_latest, ri_pc, resp_image,
                    probe, resp_status, configvars, relayvars, camera_session,
                    since, preview_loop, received, stamp, relay_http >>

\* self.camera = <the VideoCapture constructed>; it is opened or
\* initialize_camera raises and restart_camera gives up
DoCaptureReopened(t) ==
    /\ wpc[t] = "dc_reopen"
    /\ \E opens \in BOOLEAN :
           /\ camera' = IF opens THEN "opened" ELSE "closed"
           /\ wpc' = [wpc EXCEPT ![t] = IF opens THEN "rc_preview" ELSE "none"]
    /\ camera_session' = handle[t].index
    /\ handle' = [handle EXCEPT ![t] = NoHandle]
    /\ UNCHANGED << app_instance, cement_ratios, is_processing, current_results,
                    captured_frame, current_timestamp, result_image,
                    camera_paused, btn_state, btn_cmd, latest_analysis,
                    tkqueue, clock, pc, run, http_capture, ui,
                    published, rl_pc, rl, resp_latest, ri_pc, resp_image,
                    probe, resp_status, configvars, relayvars, since,
                    preview_loop, received, stamp, relay_http >>


\* ------------------------------------------------- the Tk main loop (UI thread)
TkReady(cb) ==
    /\ pc[UiThread] = "idle"
    /\ tkqueue # << >>
    /\ Head(tkqueue).cb = cb

\* lambda: self.capture_btn.config(state=tk.NORMAL)
TkEnableButton ==
    /\ TkReady("enable_btn")
    /\ tkqueue' = Tail(tkqueue)
    /\ btn_state' = "normal"
    /\ UNCHANGED << app_instance, cement_ratios, is_processing, current_results,
                    captured_frame, current_timestamp, result_image,
                    camera_paused, camera, btn_cmd, latest_analysis, clock, pc,
                    wpc, run, http_capture, ui, published, rl_pc, rl,
                    resp_latest, ri_pc, resp_image, probe,
                    resp_status, configvars, relayvars, camvars, preview_loop,
                    received, stamp, relay_http >>

\* display_result_in_camera_panel: self.camera_paused = True and the button
\* becomes "Return to Camera"
\* or: the picture cannot be shown, and the except calls resume_camera_preview
DisplayResultInCameraPanel ==
    \E shown \in BOOLEAN :
        /\ camera_paused' = shown
        /\ btn_cmd' = IF shown THEN "resume" ELSE "capture"
        /\ preview_loop' = IF shown THEN preview_loop
                                    ELSE Scheduled(preview_loop)

AfterMissPublishes == "pub_image"
\* the return of detect_rebar or detect_sections after a miss: on to the
\* finally of _do_analyze
AfterMiss == "an_finally"

\* _do_analyze up to the section loop: detect_rebar(self.captured_frame) and the
\* head of detect_sections
DoAnalyzeStart ==
    /\ TkReady("do_analyze")
    /\ tkqueue' = Tail(tkqueue)
    /\ IF captured_frame = NoFrame
       THEN /\ btn_state' = "normal"
            /\ is_processing' = FALSE
            /\ run' = [run EXCEPT ![Head(tkqueue).run] = FALSE]
            /\ UNCHANGED << pc, ui, camera_paused, btn_cmd, preview_loop >>
       ELSE /\ ui' = [UiIdle EXCEPT !.frame = captured_frame,
                                    !.run = Head(tkqueue).run, !.i = 1]
            /\ IF Len(captured_frame.primary) = 0 \/ Len(captured_frame.sections) = 0
               THEN /\ DisplayResultInCameraPanel
                    /\ pc' = [pc EXCEPT ![UiThread] = AfterMiss]
               ELSE /\ pc' = [pc EXCEPT ![UiThread] = "section_loop"]
                    /\ UNCHANGED << camera_paused, btn_cmd, preview_loop >>
            /\ UNCHANGED << btn_state, is_processing, run >>
    /\ UNCHANGED << app_instance, cement_ratios, current_results,
                    captured_frame, current_timestamp, result_image, camera,
                    latest_analysis, clock, wpc, http_capture,
                    published, rl_pc, rl, resp_latest, ri_pc, resp_image,
                    probe,
                    resp_status, configvars, relayvars, camvars, received, stamp, relay_http >>

\* one pass of "for i, (box, score) in enumerate(zip(boxes, scores))": the
\* section's record is appended to self.current_results, or
\* self.cement_ratios[size] raises KeyError and _do_analyze's except takes over
SectionLoop ==
    /\ pc[UiThread] = "section_loop"
    /\ LET sec == ui.frame.sections[ui.i]
           size == SizeCategory(cement_ratios, diameter_mm(sec.box))
       IN  IF ~HasKey(cement_ratios, size)
           THEN /\ pc' = [pc EXCEPT ![UiThread] = "an_finally"]
                /\ UNCHANGED << current_results, ui >>
           ELSE /\ current_results' =
                       Append(current_results,
                              SectionData(cement_ratios, current_timestamp, ui.i, sec))
                /\ IF ui.i = Len(ui.frame.sections)
                   THEN /\ pc' = [pc EXCEPT ![UiThread] = "sections_done"]
                        /\ ui' = ui
                   ELSE /\ pc' = pc
                        /\ ui' = [ui EXCEPT !.i = ui.i + 1]
    /\ UNCHANGED << app_instance, cement_ratios, is_processing, captured_frame,
                    current_timestamp, result_image, camera_paused, camera,
                    btn_state, btn_cmd, latest_analysis, tkqueue, clock, wpc,
                    run, http_capture, published, rl_pc, rl,
                    resp_latest, ri_pc, resp_image, probe,
                    resp_status, configvars, relayvars, camvars, preview_loop,
                    received, stamp, relay_http >>

\* self.result_image = result_image; self.display_result_in_camera_panel(...)
SectionsDone ==
    /\ pc[UiThread] = "sections_done"
    /\ result_image' = ResultImage(ui.frame)
    /\ DisplayResultInCameraPanel
    /\ pc' = [pc EXCEPT ![UiThread] = "pub_check"]
    /\ UNCHANGED << app_instance, cement_ratios, is_processing, current_results,
                    captured_frame, current_timestamp, camera, btn_state,
                    latest_analysis, tkqueue, clock, wpc, run,
                    http_capture, ui, published, rl_pc, rl, resp_latest, ri_pc,
                    resp_image, probe,
                    resp_status, configvars, relayvars, camvars, received, stamp, relay_http >>

\* -------------------------------------------------------- update_api_data
\* "if not self.current_results: return", then the loop that builds segments
\* and total_volume from the list
UpdateApiDataBuild ==
    /\ pc[UiThread] = "pub_check"
    /\ IF current_results = << >>
       THEN /\ pc' = [pc EXCEPT ![UiThread] = "an_finally"]
            /\ ui' = ui
       ELSE /\ pc' = [pc EXCEPT ![UiThread] = "pub_image"]
            /\ ui' = [ui EXCEPT
                        !.segments = ApiSegments(current_results),
                        !.total_volume =
                            TotalVolume(ApiSegments(current_results), Len(current_results))]
    /\ UNCHANGED << app_instance, cement_ratios, is_processing, current_results,
                    captured_frame, current_timestamp, result_image,
                    camera_paused, camera, btn_state, btn_cmd, latest_analysis,
                    tkqueue, clock, wpc, run, http_capture, published,
                    rl_pc, rl, resp_latest, ri_pc, resp_image, probe,
                    resp_status, configvars, relayvars, camvars, preview_loop,
                    received, stamp, relay_http >>

\* latest_analysis["image"] = img_b64, or the except of a failed conversion
UpdateApiDataImage ==
    /\ pc[UiThread] = "pub_image"
    /\ \E converted \in BOOLEAN :
           latest_analysis' =
               IF converted
               THEN [latest_analysis EXCEPT !.image = EncodeImage(result_image)]
               ELSE latest_analysis
    /\ pc' = [pc EXCEPT ![UiThread] = "pub_timestamp"]
    /\ UNCHANGED << app_instance, cement_ratios, is_processing, current_results,
                    captured_frame, current_timestamp, result_image,
                    camera_paused, camera, btn_state, btn_cmd, tkqueue, clock,
                    wpc, run, http_capture, ui, published, rl_pc, rl,
                    resp_latest, ri_pc, resp_image, probe,
                    resp_status, configvars, relayvars, camvars, preview_loop,
                    received, stamp, relay_http >>

\* latest_analysis["timestamp"] = self.current_timestamp
UpdateApiDataTimestamp ==
    /\ pc[UiThread] = "pub_timestamp"
    /\ latest_analysis' = [latest_analysis EXCEPT !.timestamp = current_timestamp]
    /\ pc' = [pc EXCEPT ![UiThread] = "pub_segments"]
    /\ UNCHANGED << app_instance, cement_ratios, is_processing, current_results,
                    captured_frame, current_timestamp, result_image,
                    camera_paused, camera, btn_state, btn_cmd, tkqueue, clock,
                    wpc, run, http_capture, ui, published, rl_pc, rl,
                    resp_latest, ri_pc, resp_image, probe,
                    resp_status, configvars, relayvars, camvars, preview_loop,
                    received, stamp, relay_http >>

\* latest_analysis["segments"] = segments
UpdateApiDataSegments ==
    /\ pc[UiThread] = "pub_segments"
    /\ latest_analysis' = [latest_analysis EXCEPT !.segments = ui.segments]
    /\ pc' = [pc EXCEPT ![UiThread] = "pub_total"]
    /\ UNCHANGED << app_instance, cement_ratios, is_processing, current_results,
                    captured_frame, current_timestamp, result_image,
                    camera_paused, camera, btn_state, btn_cmd, tkqueue, clock,
                    wpc, run, http_capture, ui, published, rl_pc, rl,
                    resp_latest, ri_pc, resp_image, probe,
                    resp_status, configvars, relayvars, camvars, preview_loop,
                    received, stamp, relay_http >>

\* latest_analysis["total_volume"] = total_volume: the last field served
UpdateApiDataTotal ==
    /\ pc[UiThread] = "pub_total"
    /\ latest_analysis' = [latest_analysis EXCEPT !.total_volume = ui.total_volume]
    /\ published' = published \cup {latest_analysis'}
    /\ pc' = [pc EXCEPT ![UiThread] = "an_finally"]
    /\ UNCHANGED << app_instance, cement_ratios, is_processing, current_results,
                    captured_frame, current_timestamp, result_image,
                    camera_paused, camera, btn_state, btn_cmd, tkqueue, clock,
                    wpc, run, http_capture, ui, rl_pc, rl, resp_latest,
                    ri_pc, resp_image, probe,
                    resp_status, configvars, relayvars, camvars, preview_loop,
                    received, stamp, relay_http >>

\* finally: root.after(0, <re-enable the button>); self.is_processing = False
DoAnalyzeFinally ==
    /\ pc[UiThread] = "an_finally"
    /\ tkqueue' = Append(tkqueue, [cb |-> "enable_btn", run |-> UiThread])
    /\ is_processing' = FALSE
    /\ run' = [run EXCEPT ![ui.run] = FALSE]
    /\ ui' = UiIdle
    /\ stamp' = [stamp EXCEPT ![ui.run] = None]
    /\ pc' = [pc EXCEPT ![UiThread] = "idle"]
    /\ UNCHANGED << app_instance, cement_ratios, current_results,
                    captured_frame, current_timestamp, result_image,
                    camera_paused, camera, btn_state, btn_cmd, latest_analysis,
                    clock, wpc, http_capture, published, rl_pc, rl,
                    resp_latest, ri_pc, resp_image, probe,
                    resp_status, configvars, relayvars, camvars, preview_loop,
                    received, relay_http >>

\* --------------------------------------------------- GET /api/latest[_image]
LatestResponseByTimestamp(ts, segments, total, image) ==
    [timestamp |-> ts, segments |-> segments, total_volume |-> total,
     image_available |-> ts # None]

\* what GET /api/latest answers from the fields it read
LatestResponse(ts, segments, total, image) ==
    [timestamp |-> ts, segments |-> segments, total_volume |-> total,
     image_available |-> image # NoImage]

NoDataResponse == LatestResponse(None, << >>, 0, NoImage)

\* if latest_analysis["timestamp"] is None: return the empty answer
GetLatestCheck ==
    /\ rl_pc = "idle"
    /\ IF latest_analysis.timestamp = None
       THEN /\ resp_latest' = NoDataResponse
            /\ rl_pc' = rl_pc
       ELSE /\ resp_latest' = NoResponse
            /\ rl_pc' = "timestamp"
    /\ UNCHANGED << app_instance, cement_ratios, is_processing, current_results,
                    captured_frame, current_timestamp, result_image,
                    camera_paused, camera, btn_state, btn_cmd, latest_analysis,
                    tkqueue, clock, pc, wpc, run, http_capture, ui,
                    published, rl, ri_pc, resp_image, probe,
                    resp_status, configvars, relayvars, camvars, preview_loop,
                    received, stamp, relay_http >>

\* "timestamp": latest_analysis["timestamp"]
GetLatestTimestamp ==
    /\ rl_pc = "timestamp"
    /\ rl' = [rl EXCEPT !.timestamp = latest_analysis.timestamp]
    /\ rl_pc' = "segments"
    /\ UNCHANGED << app_instance, cement_ratios, is_processing, current_results,
                    captured_frame, current_timestamp, result_image,
                    camera_paused, camera, btn_state, btn_cmd, latest_analysis,
                    tkqueue, clock, pc, wpc, run, http_capture, ui,
                    published, resp_latest, ri_pc, resp_image, probe,
                    resp_status, configvars, relayvars, camvars, preview_loop,
                    received, stamp, relay_http >>

\* "segments": latest_analysis["segments"]
GetLatestSegments ==
    /\ rl_pc = "segments"
    /\ rl' = [rl EXCEPT !.segments = latest_analysis.segments]
    /\ rl_pc' = "total_volume"
    /\ UNCHANGED << app_instance, cement_ratios, is_processing, current_results,
                    captured_frame, current_timestamp, result_image,
                    camera_paused, camera, btn_state, btn_cmd, latest_analysis,
                    tkqueue, clock, pc, wpc, run, http_capture, ui,
                    published, resp_latest, ri_pc, resp_image, probe,
                    resp_status, configvars, relayvars, camvars, preview_loop,
                    received, stamp, relay_http >>

\* "total_volume": latest_analysis["total_volume"]
GetLatestTotal ==
    /\ rl_pc = "total_volume"
    /\ rl' = [rl EXCEPT !.total_volume = latest_analysis.total_volume]
    /\ rl_pc' = "image_available"
    /\ UNCHANGED << app_instance, cement_ratios, is_processing, current_results,
                    captured_frame, current_timestamp, result_image,
                    camera_paused, camera, btn_state, btn_cmd, latest_analysis,
                    tkqueue, clock, pc, wpc, run, http_capture, ui,
                    published, resp_latest, ri_pc, resp_image, probe,
                    resp_status, configvars, relayvars, camvars, preview_loop,
                    received, stamp, relay_http >>

\* "image_available": latest_analysis["image"] is not None, and the answer
GetLatestRespond ==
    /\ rl_pc = "image_available"
    /\ resp_latest' =
           LatestResponse(rl.timestamp, rl.segments, rl.total_volume,
                          latest_analysis.image)
    /\ rl' = EmptyAnalysis
    /\ rl_pc' = "idle"
    /\ UNCHANGED << app_instance, cement_ratios, is_processing, current_results,
                    captured_frame, current_timestamp, result_image,
                    camera_paused, camera, btn_state, btn_cmd, latest_analysis,
                    tkqueue, clock, pc, wpc, run, http_capture, ui,
                    published, ri_pc, resp_image, probe,
                    resp_status, configvars, relayvars, camvars, preview_loop,
                    received, stamp, relay_http >>

\* if latest_analysis["image"] is None: return 404
GetLatestImageCheck ==
    /\ ri_pc = "idle"
    /\ IF latest_analysis.image = NoImage
       THEN /\ resp_image' = [status |-> 404, image |-> NoImage]
            /\ ri_pc' = ri_pc
       ELSE /\ resp_image' = NoResponse
            /\ ri_pc' = "image"
    /\ UNCHANGED << app_instance, cement_ratios, is_processing, current_results,
                    captured_frame, current_timestamp, result_image,
                    camera_paused, camera, btn_state, btn_cmd, latest_analysis,
                    tkqueue, clock, pc, wpc, run, http_capture, ui,
                    published, rl_pc, rl, resp_latest, probe,
                    resp_status, configvars, relayvars, camvars, preview_loop,
                    received, stamp, relay_http >>

\* return jsonify({"image": latest_analysis["image"]})
GetLatestImageRespond ==
    /\ ri_pc = "image"
    /\ resp_image' = [status |-> 200, image |-> latest_analysis.image]
    /\ ri_pc' = "idle"
    /\ UNCHANGED << app_instance, cement_ratios, is_processing, current_results,
                    captured_frame, current_timestamp, result_image,
                    camera_paused, camera, btn_state, btn_cmd, latest_analysis,
                    tkqueue, clock, pc, wpc, run, http_capture, ui,
                    published, rl_pc, rl, resp_latest, probe,
                    resp_status, configvars, relayvars, camvars, preview_loop,
                    received, stamp, relay_http >>

\* ----------------------------------------------------------- GET /api/status
\* camera_available: app_instance.camera is not None and isOpened()
CameraAvailable == app_instance /\ camera = "opened"

HasResultsFromImage == latest_analysis.image # NoImage
\* "has_results": latest_analysis["timestamp"] is not None
HasResults == latest_analysis.timestamp # None

Status ==
    /\ resp_status = NoResponse
    /\ resp_status' = [status |-> "online",
                       camera_available |-> CameraAvailable,
                       has_results |-> HasResults]
    /\ UNCHANGED << app_instance, cement_ratios, is_processing, current_results,
                    captured_frame, current_timestamp, result_image,
                    camera_paused, camera, btn_state, btn_cmd, latest_analysis,
                    tkqueue, clock, pc, wpc, run, http_capture, ui,
                    published, rl_pc, rl, resp_latest, ri_pc, resp_image,
                    probe, configvars, relayvars, camvars, preview_loop,
                    received, stamp, relay_http >>

\* the thread of the request ends
StatusReturns ==
    /\ resp_status # NoResponse
    /\ resp_status' = NoResponse
    /\ UNCHANGED << app_instance, cement_ratios, is_processing, current_results,
                    captured_frame, current_timestamp, result_image,
                    camera_paused, camera, btn_state, btn_cmd, latest_analysis,
                    tkqueue, clock, pc, wpc, run, http_capture, ui,
                    published, rl_pc, rl, resp_latest, ri_pc, resp_image,
                    probe, configvars, relayvars, camvars, preview_loop,
                    received, stamp, relay_http >>

\* ---------------------------------------------------------- specification
\* restart_camera goes on with self.update_preview(), on the worker's thread:
\* the test of camera_paused and is_processing, and of the camera
RestartUpdatePreview(t) ==
    /\ wpc[t] = "rc_preview"
    /\ IF camera_paused \/ is_processing \/ camera # "opened"
       THEN /\ preview_loop' = Scheduled(preview_loop)
            /\ wpc' = [wpc EXCEPT ![t] = "none"]
       ELSE /\ preview_loop' = preview_loop
            /\ wpc' = [wpc EXCEPT ![t] = "rc_pvread"]
    /\ UNCHANGED << app_instance, cement_ratios, is_processing, current_results,
                    captured_frame, current_timestamp, result_image,
                    camera_paused, camera, btn_state, btn_cmd, latest_analysis,
                    tkqueue, clock, pc, run, http_capture, ui,
                    published, rl_pc, rl, resp_latest, ri_pc, resp_image,
                    probe, resp_status, configvars, relayvars, camvars,
                    received, stamp, relay_http >>

\* ret, frame = self.camera.read() has returned; root.after(.., update_preview)
RestartUpdatePreviewRead(t) ==
    /\ wpc[t] = "rc_pvread"
    /\ preview_loop' = Scheduled(preview_loop)
    /\ wpc' = [wpc EXCEPT ![t] = "none"]
    /\ UNCHANGED << app_instance, cement_ratios, is_processing, current_results,
                    captured_frame, current_timestamp, result_image,
                    camera_paused, camera, btn_state, btn_cmd, latest_analysis,
                    tkqueue, clock, pc, run, http_capture, ui,
                    published, rl_pc, rl, resp_latest, ri_pc, resp_image,
                    probe, resp_status, configvars, relayvars, camvars,
                    received, stamp, relay_http >>

\* a scheduled update_preview on the Tk thread finds neither camera_paused nor
\* is_processing and an opened camera, and calls self.camera.read()
UpdatePreview ==
    /\ preview_loop > 0
    /\ pc[UiThread] = "idle"
    /\ ~(camera_paused \/ is_processing)
    /\ camera = "opened"
    /\ pc' = [pc EXCEPT ![UiThread] = "pv_read"]
    /\ UNCHANGED << app_instance, cement_ratios, is_processing, current_results,
                    captured_frame, current_timestamp, result_image,
                    camera_paused, camera, btn_state, btn_cmd, latest_analysis,
                    tkqueue, clock, wpc, run, http_capture, ui,
                    published, rl_pc, rl, resp_latest, ri_pc, resp_image,
                    probe, resp_status, configvars, relayvars, camvars,
                    preview_loop, received, stamp, relay_http >>

\* the read has returned and update_preview has scheduled itself again
UpdatePreviewRead ==
    /\ pc[UiThread] = "pv_read"
    /\ pc' = [pc EXCEPT ![UiThread] = "idle"]
    /\ UNCHANGED << app_instance, cement_ratios, is_processing, current_results,
                    captured_frame, current_timestamp, result_image,
                    camera_paused, camera, btn_state, btn_cmd, latest_analysis,
                    tkqueue, clock, wpc, run, http_capture, ui,
                    published, rl_pc, rl, resp_latest, ri_pc, resp_image,
                    probe, resp_status, configvars, relayvars, camvars,
                    preview_loop, received, stamp, relay_http >>

PreviewSteps ==
    \/ UpdatePreview
    \/ UpdatePreviewRead

CaptureSteps ==
    \/ \E t \in ApiThreads : TriggerCapture(t) /\ UNCHANGED relay_http
    \/ ClickCapture
    \/ \E t \in Threads : CaptureCheck(t)
    \/ \E t \in Threads : CaptureRejected(t)
    \/ \E t \in Threads : CaptureSet(t)
    \/ \E t \in Threads : CaptureSpawn(t)
    \/ \E t \in Threads : DoCaptureReset(t)
    \/ \E t \in Threads : DoCaptureCamera(t)
    \/ \E t \in Threads : DoCaptureRead(t)
    \/ \E t \in Threads : DoCaptureStamp(t)
    \/ \E t \in Threads : DoCaptureSchedule(t)
    \/ \E t \in Threads : DoCaptureFail(t)
    \/ \E t \in Threads : DoCaptureRestart(t)
    \/ \E t \in Threads : DoCaptureReopen(t)
    \/ \E t \in Threads : DoCaptureReopened(t)
    \/ \E t \in Threads : RestartUpdatePreview(t)
    \/ \E t \in Threads : RestartUpdatePreviewRead(t)

AnalyzeSteps ==
    \/ DoAnalyzeStart
    \/ SectionLoop
    \/ SectionsDone
    \/ UpdateApiDataBuild
    \/ UpdateApiDataImage
    \/ UpdateApiDataTimestamp
    \/ UpdateApiDataSegments
    \/ UpdateApiDataTotal
    \/ DoAnalyzeFinally

ReadSteps ==
    \/ GetLatestCheck
    \/ GetLatestTimestamp
    \/ GetLatestSegments
    \/ GetLatestTotal
    \/ GetLatestRespond
    \/ GetLatestImageCheck
    \/ GetLatestImageRespond

\* GET /api/status and GET /api/latest
StatusSteps ==
    \/ Status
    \/ StatusReturns
    \/ GetLatestCheck
    \/ GetLatestTimestamp
    \/ GetLatestSegments
    \/ GetLatestTotal
    \/ GetLatestRespond

\* the edge's capture, analysis and publication
Next ==
    \/ CreateApp
    \/ PreviewSteps
    \/ CaptureSteps
    \/ TkEnableButton
    \/ ResumeCameraPreview
    \/ AnalyzeSteps

Spec == Init /\ [][Next]_vars

\* the edge with its HTTP readers
NextRead == Next \/ ReadSteps

SpecRead == Init /\ [][NextRead]_vars

\* the edge with the readers of its status and of its latest result
NextStatus == Next \/ StatusSteps

SpecStatus == Init /\ [][NextStatus]_vars

\* ------------------------------------------------------------------ claims
ActiveRuns == {t \in Threads : run[t]}
Publishing ==
    pc[UiThread] \in {"pub_image", "pub_timestamp", "pub_segments", "pub_total"}

\* C1: at most one capture/analysis run, from is_processing = True in
\* capture_image to its reset, is active at any time.
C1_AtMostOneActiveRun == Cardinality(ActiveRuns) <= 1

\* C2: a capture_image call that finds is_processing set starts no worker,
\* changes nothing of the run in flight nor of the published snapshot, and
\* leaves nothing behind that starts a run later.
C2_RejectedTriggerHasNoEffect ==
    [][\A t \in Threads :
          ( /\ \/ pc[t] = "ci_check" /\ is_processing
               \/ pc[t] = "ci_ignored"
            /\ pc'[t] # pc[t] )
          => /\ pc'[t] \in {"ci_ignored", "idle"}
             /\ UNCHANGED << is_processing, current_results, captured_frame,
                             current_timestamp, result_image, latest_analysis,
                             published, wpc, run, tkqueue, ui >>]_vars

\* a call was turned away while a run is in flight
C2_Witness ==
    \E t \in Threads :
        /\ pc[t] = "ci_ignored"
        /\ is_processing
        /\ \E u \in Threads \ {t} : run[u] /\ wpc[u] = "dc_read"

\* C3: POST /api/capture answers Accepted (200) only for a trigger the
\* controller accepts, and Unavailable (non-200) whenever a run is in progress
\* when the request arrives.
C3_UnavailableWhileRunInProgress ==
    \A t \in ApiThreads :
        http_capture[t] # NoResponse =>
            /\ http_capture[t].busy => http_capture[t].status # 200
            /\ http_capture[t].status = 200 => pc[t] # "ci_ignored"

RECURSIVE SumVolumeCc(_)
SumVolumeCc(segments) ==
    IF segments = << >> THEN 0
    ELSE Head(segments).volume_cc + SumVolumeCc(Tail(segments))

\* C5: in every snapshot a completed update_api_data wrote, total_volume is the
\* sum of the volume_cc of exactly the segments stored in it.
C5_TotalVolumeIsSumOfSegments ==
    /\ \A p \in published : p.total_volume = SumVolumeCc(p.segments)
    /\ ~Publishing => latest_analysis.total_volume = SumVolumeCc(latest_analysis.segments)

\* a snapshot of two segments of different volumes has been published
C5_Witness ==
    /\ ~Publishing
    /\ latest_analysis \in published
    /\ Len(latest_analysis.segments) = 2
    /\ latest_analysis.segments[1].volume_cc # latest_analysis.segments[2].volume_cc
    /\ latest_analysis.total_volume > latest_analysis.segments[2].volume_cc

\* the tier of a served segment
TierOf(segment) == Lookup(cement_ratios, segment.size_category)

\* C10: every segment of the snapshot GET /api/latest serves carries the
\* cement, sand and aggregate ratio of the tier selected for it.
C10_ServedSegmentsCarryMixRatio ==
    \A i \in 1..Len(latest_analysis.segments) :
        LET segment == latest_analysis.segments[i]
        IN  /\ {"cement_ratio", "sand_ratio", "aggregate_ratio"} \subseteq DOMAIN segment
            /\ segment.cement_ratio = TierOf(segment).cement
            /\ segment.sand_ratio = TierOf(segment).sand
            /\ segment.aggregate_ratio = TierOf(segment).aggregate

\* what GET /api/latest answers when it reads snapshot p in one piece
LatestView(p) == LatestResponse(p.timestamp, p.segments, p.total_volume, p.image)

\* C4: every response of GET /api/latest and GET /api/latest_image carries
\* fields of one single publication, or of the no-data-yet state; none mixes
\* two publications. (Looked at once the publication under way has completed,
\* so that a response may also match the snapshot being written.)
C4_ResponsesComeFromOnePublication ==
    ~Publishing =>
        /\ resp_latest # NoResponse =>
               \/ resp_latest = NoDataResponse
               \/ \E p \in published : resp_latest = LatestView(p)
        /\ resp_image # NoResponse =>
               \/ resp_image.status = 404
               \/ \E p \in published : resp_image.image = p.image

\* ------------------------------------------- one analysis, any configuration
\* cement_ratios.json may hold any tiers: up to MaxTiers entries of distinct
\* names, in any order, each with a diameter_range or without one
TierNames == {"small", "medium", "large"}
TierRanges == {<<6, 12>>, <<12, 20>>, <<20, 50>>, <<10, 25>>}

DefaultOf(n) == Lookup(DefaultRatios, n)

TierEntry(n, r) == Tier(n, DefaultOf(n).cement, DefaultOf(n).sand, DefaultOf(n).aggregate, r[1], r[2])
TierWithoutRange(n) == [TierEntry(n, <<0, 0>>) EXCEPT !.has_range = FALSE]
TierEntries == {TierEntry(n, r) : n \in TierNames, r \in TierRanges}
                   \cup {TierWithoutRange(n) : n \in TierNames}

TierConfigs ==
    UNION {{c \in [1..k -> TierEntries] :
               \A i, j \in 1..k : i # j => c[i].name # c[j].name} : k \in 1..MaxTiers}

\* the frames put to one analysis
MeasureScenes ==
    {SceneTwoSections, SceneSmallSection, SceneBoundaries, SceneNoSections, SceneNoRebar}

\* a frame has been captured and _do_analyze is scheduled (after master.py 669)
InitMeasure ==
    /\ ConfigDefaults
    /\ CameraStart
    /\ RelayStart
    /\ app_instance = TRUE
    /\ cement_ratios \in TierConfigs
    /\ is_processing = TRUE
    /\ current_results = << >>
    /\ captured_frame \in MeasureScenes
    /\ current_timestamp = 1
    /\ stamp = [t \in Threads |-> IF t = 1 THEN 1 ELSE None]
    /\ result_image = NoImage
    /\ camera_paused = FALSE
    /\ camera = "opened"
    /\ btn_state = "disabled"
    /\ btn_cmd = "capture"
    /\ latest_analysis = EmptyAnalysis
    /\ tkqueue = << [cb |-> "do_analyze", run |-> 1] >>
    /\ clock = 1
    /\ pc = [t \in Threads |-> "idle"]
    /\ wpc = [t \in Threads |-> "none"]
    /\ run = [t \in Threads |-> t = 1]
    /\ http_capture = [t \in ApiThreads |-> NoResponse]
    /\ ui = UiIdle
    /\ published = {}
    /\ rl_pc = "idle"
    /\ rl = EmptyAnalysis
    /\ resp_latest = NoResponse
    /\ ri_pc = "idle"
    /\ resp_image = NoResponse
    /\ probe = NoProbe

NextMeasure ==
    \/ AnalyzeSteps
    \/ TkEnableButton
    \/ ResumeCameraPreview
    \/ UpdatePreviewRead

SpecMeasure == InitMeasure /\ [][NextMeasure]_vars

\* ------------------------------------------------------------ the tier scan
\* diameters put to the scan, in hundredths of a millimetre
DiameterSamples ==
    {500, 599, 600, 1000, 1199, 1200, 1201, 1999, 2000, 2499, 2500, 4999, 5000}

\* master.py 827-837 on one diameter: the category, and whether
\* self.cement_ratios[size] finds it
ScanTiers ==
    \E d \in DiameterSamples :
        /\ probe' = [diameter_mm |-> d,
                     size |-> SizeCategory(cement_ratios, d),
                     found |-> HasKey(cement_ratios, SizeCategory(cement_ratios, d))]
        /\ UNCHANGED << app_instance, cement_ratios, is_processing,
                        current_results, captured_frame, current_timestamp,
                        result_image, camera_paused, camera, btn_state, btn_cmd,
                        latest_analysis, tkqueue, clock, pc, wpc, run,
                        http_capture, ui, published, rl_pc, rl, resp_latest,
                        ri_pc, resp_image, resp_status, configvars,
                        relayvars, camvars, preview_loop,
                    received, stamp, relay_http >>

InitTier ==
    /\ InitCommon
    /\ cement_ratios \in TierConfigs

SpecTier == InitTier /\ [][ScanTiers]_vars

\* ------------------------------------------------- claims on the measurement
Scanned == probe # NoProbe
Contains(info, d) == info.min_diam * 100 <= d /\ d < info.max_diam * 100

\* C6: with the tiers small[6,12), medium[12,20), large[20,50): 11.99 mm is
\* small, 12.0 mm medium, 49.99 mm large, 50.0 mm and 5.0 mm the fallback small;
\* every tier takes its minimum and leaves out its maximum.
C6_DefaultTierBoundaries ==
    (Scanned /\ cement_ratios = DefaultRatios) =>
        /\ probe.diameter_mm = 1199 => probe.size = "small"
        /\ probe.diameter_mm = 1200 => probe.size = "medium"
        /\ probe.diameter_mm = 4999 => probe.size = "large"
        /\ probe.diameter_mm \in {5000, 500} => probe.size = "small"
        /\ \A i \in 1..Len(DefaultRatios) :
               Contains(DefaultRatios[i], probe.diameter_mm)
                   => probe.size = DefaultRatios[i].name
        /\ (\A i \in 1..Len(DefaultRatios) :
               ~Contains(DefaultRatios[i], probe.diameter_mm))
                   => probe.size = "small"

\* 12.0 mm has been put to the default tiers
C6_Witness ==
    /\ Scanned
    /\ cement_ratios = DefaultRatios
    /\ probe.diameter_mm = 1200
    /\ probe.size = "medium"

\* the reference: tiers ascending by minimum (entries of equal minimum in file
\* order), the first that contains d, else the tier of the smallest minimum
Ranged(ratios) == {i \in 1..Len(ratios) : ratios[i].has_range}
Before(ratios, i, j) ==
    \/ ratios[i].min_diam < ratios[j].min_diam
    \/ ratios[i].min_diam = ratios[j].min_diam /\ i <= j
FirstSorted(ratios, among) == CHOOSE i \in among : \A j \in among : Before(ratios, i, j)
ReferenceCategory(ratios, d) ==
    LET hits == {i \in Ranged(ratios) : Contains(ratios[i], d)}
    IN  IF hits # {} THEN ratios[FirstSorted(ratios, hits)].name
        ELSE ratios[FirstSorted(ratios, Ranged(ratios))].name

\* C7: for every configured tier set and every diameter, detect_sections
\* chooses the category of the reference procedure.
C7_CategoryIsSortedFirstMatch ==
    (Scanned /\ Ranged(cement_ratios) # {}) =>
        /\ probe.found
        /\ probe.size = ReferenceCategory(cement_ratios, probe.diameter_mm)

Published == ~Publishing /\ latest_analysis \in published
ProductOfStored(segment) == segment.length_cm * segment.width_cm * segment.height_cm
Distance(a, b) == IF a <= b THEN b - a ELSE a - b

\* C8 as claimed: every published segment has volume_cc = length_cm * width_cm
\* * height_cm and height_cm = width_cm on the stored, rounded values.
\* (hundredths of a cc against hundredths of a cm cubed: a factor 10000)
C8_VolumeIsProductOfStoredValues ==
    \A p \in published : \A i \in 1..Len(p.segments) :
        /\ p.segments[i].volume_cc * 10000 = ProductOfStored(p.segments[i])
        /\ p.segments[i].height_cm = p.segments[i].width_cm

\* C8 as amended: every published segment has height_cm = width_cm, and its
\* volume_cc is the product of its length_cm, width_cm and height_cm rounded to
\* two decimals: it differs from that product by at most 0.005.
C8_VolumeIsRoundedProduct ==
    \A p \in published : \A i \in 1..Len(p.segments) :
        /\ Distance(p.segments[i].volume_cc * 10000, ProductOfStored(p.segments[i])) <= 5000
        /\ p.segments[i].height_cm = p.segments[i].width_cm

\* a segment whose volume the rounding changed has been published
C8_Witness ==
    /\ Published
    /\ \E i \in 1..Len(latest_analysis.segments) :
           /\ latest_analysis.segments[i].volume_cc * 10000
                  # ProductOfStored(latest_analysis.segments[i])
           /\ latest_analysis.segments[i].volume_cc > 0

\* the snapshot of the frame with sections (10,10,30,50) and (40,10,70,60)
ScenarioPublished ==
    /\ Published
    /\ Len(latest_analysis.segments) = 2
    /\ latest_analysis.segments[1].bbox = <<10, 10, 30, 50>>
    /\ latest_analysis.segments[2].bbox = <<40, 10, 70, 60>>

Number(h) == [kind |-> "number", hundredths |-> h]
Text == [kind |-> "string"]
Absent == [kind |-> "absent"]
\* request.json is None
NoBody == [none |-> TRUE]

\* float(v) and int(v) raise on a string that is no number
Raises(v) == v.kind # "number"
\* float(v) of a JSON number
float(v) == v.hundredths
\* int(v) of a JSON number: truncation towards zero
int(v) ==
    IF v.hundredths >= 0 THEN v.hundredths \div 100
    ELSE 0 - ((0 - v.hundredths) \div 100)

ThresholdInputs == {Absent, Number(50), Number(150), Number(0 - 10), Text}
IndexInputs == {Absent, Number(0), Number(100), Number(170), Number(0 - 100), Text}
ConfigBodies ==
    {NoBody} \cup
    [detection_threshold : ThresholdInputs, external_camera_index : IndexInputs]

\* GET /api/config
ConfigResponse ==
    [detection_threshold |->
         IF app_instance THEN detection_threshold ELSE DefaultThreshold,
     camera_enabled |-> TRUE,
     external_camera_index |-> IF app_instance THEN camera_index ELSE 0]

GetConfig ==
    /\ resp_config' = ConfigResponse
    /\ UNCHANGED << app_instance, cement_ratios, is_processing, current_results,
                    captured_frame, current_timestamp, result_image,
                    camera_paused, camera, btn_state, btn_cmd, latest_analysis,
                    tkqueue, clock, pc, wpc, run, http_capture, ui,
                    published, rl_pc, rl, resp_latest, ri_pc, resp_image,
                    probe, resp_status, detection_threshold, camera_index,
                    http_config, relayvars, camvars, preview_loop,
                    received, stamp >>

\* POST /api/config, the whole handler: what it leaves in the threshold, the
\* camera index and the camera, and the status it answers.  opens: whether
\* cv2.VideoCapture opens the device in initialize_camera.
UpdateConfigOutcome(body, opens) ==
    LET same == [threshold |-> detection_threshold, index |-> camera_index,
                 camera |-> camera, session |-> camera_session,
                 preview |-> preview_loop]
    IN  IF ~app_instance THEN [same EXCEPT !.camera = camera] @@ [status |-> 200]
        ELSE IF body = NoBody THEN same @@ [status |-> 500]
        ELSE
          LET thr == body.detection_threshold
              idx == body.external_camera_index
              t1 == IF thr.kind = "absent" THEN same
                    ELSE [same EXCEPT !.threshold = float(thr)]
          IN  IF thr.kind # "absent" /\ Raises(thr) THEN same @@ [status |-> 500]
              ELSE IF idx.kind = "absent" THEN t1 @@ [status |-> 200]
              ELSE IF Raises(idx) THEN t1 @@ [status |-> 500]
              ELSE IF camera_index = int(idx) THEN t1 @@ [status |-> 200]
              ELSE IF camera = "None"
                   THEN [t1 EXCEPT !.index = int(idx)] @@ [status |-> 500]
              ELSE IF opens
                   THEN [t1 EXCEPT !.index = int(idx), !.camera = "opened",
                                   !.session = int(idx), !.preview = Scheduled(preview_loop)]
                            @@ [status |-> 200]
              ELSE [t1 EXCEPT !.index = int(idx), !.camera = "closed",
                              !.session = int(idx)]
                       @@ [status |-> 500]

UpdateConfigFrom(bodies) ==
    /\ http_config = NoResponse
    /\ \E body \in bodies, opens \in BOOLEAN :
           LET out == UpdateConfigOutcome(body, opens)
           IN  /\ detection_threshold' = out.threshold
               /\ camera_index' = out.index
               /\ camera' = out.camera
               /\ camera_session' = out.session
               /\ preview_loop' = out.preview
               /\ since' = IF out.index = camera_index THEN since ELSE {}
               /\ http_config' = [body |-> body, status |-> out.status]
    /\ UNCHANGED << app_instance, cement_ratios, is_processing, current_results,
                    captured_frame, current_timestamp, result_image,
                    camera_paused, btn_state, btn_cmd, latest_analysis,
                    tkqueue, clock, pc, wpc, run, http_capture, ui,
                    published, rl_pc, rl, resp_latest, ri_pc, resp_image,
                    probe, resp_status, resp_config, relayvars, handle,
                    received, stamp >>

UpdateConfig == UpdateConfigFrom(ConfigBodies) /\ UNCHANGED relay_http

\* the thread of the request ends
UpdateConfigReturns ==
    /\ http_config # NoResponse
    /\ http_config' = NoResponse
    /\ UNCHANGED << app_instance, cement_ratios, is_processing, current_results,
                    captured_frame, current_timestamp, result_image,
                    camera_paused, camera, btn_state, btn_cmd, latest_analysis,
                    tkqueue, clock, pc, wpc, run, http_capture, ui,
                    published, rl_pc, rl, resp_latest, ri_pc, resp_image,
                    probe, resp_status, detection_threshold, camera_index,
                    resp_config, relayvars, camvars, preview_loop,
                    received, stamp, relay_http >>

\* the edge serving its configuration
NextConfig ==
    \/ CreateApp
    \/ GetConfig /\ UNCHANGED relay_http
    \/ UpdateConfig
    \/ UpdateConfigReturns

SpecConfig == Init /\ [][NextConfig]_vars

\* a POST /api/config request has just been answered
ConfigAnswered == http_config = NoResponse /\ http_config' # NoResponse
\* a body whose threshold is outside [0, 1] or whose camera index is negative
InvalidConfig(body) ==
    /\ body # NoBody
    /\ \/ /\ body.detection_threshold.kind = "number"
          /\ \/ float(body.detection_threshold) < 0
             \/ float(body.detection_threshold) > 100
       \/ /\ body.external_camera_index.kind = "number"
          /\ body.external_camera_index.hundredths < 0

\* C11: a request whose detection_threshold is outside [0,1] or whose camera
\* index is negative is answered with an error, and get_config answers the
\* same threshold and camera index after it as before it.
C11_InvalidConfigIsRejected ==
    [][(ConfigAnswered /\ InvalidConfig(http_config'.body))
           => (http_config'.status # 200 /\ ConfigResponse' = ConfigResponse)]_vars

\* C12: whenever POST /api/config answers an error, neither the threshold nor
\* the camera index differs from its value before the request.
C12_FailedConfigChangesNothing ==
    [][(ConfigAnswered /\ http_config'.status # 200)
           => (detection_threshold' = detection_threshold
               /\ camera_index' = camera_index)]_vars


\* ------------------------------------------------- the relay (src/app.py)
\* what a request of the relay meets: an answer of the edge, an answer with
\* another status than the edge's own, or a timeout or refused connection
Outcomes == {"ok", "error_status", "exception"}

\* socketio.emit(event, payload)
StatusEvent(connected) == [event |-> "connection_status", connected |-> connected]
ErrorEvent == [event |-> "connection_error"]
NewDataEvent(data) ==
    [event |-> "new_data", connected |-> TRUE,
     timestamp |-> data.last_update,
     has_image |-> data.last_image # NoImage,
     segments_count |-> Len(data.last_results),
     total_volume |-> data.total_volume]

\* what GET /api/latest of the edge answers
EdgeLatest ==
    IF latest_analysis.timestamp = None THEN NoDataResponse
    ELSE LatestResponse(latest_analysis.timestamp, latest_analysis.segments,
                        latest_analysis.total_volume, latest_analysis.image)

\* a new_data sent is remembered, up to MaxBroadcasts of them
Remember(sent, ts) == IF Len(sent) < MaxBroadcasts THEN Append(sent, ts) ELSE sent

Failed(outcome) ==
    [observed EXCEPT !.failed = @ \/ outcome # "ok",
                     !.failure = @ \/ outcome # "ok"]

EdgeUnchanged ==
    UNCHANGED << app_instance, cement_ratios, is_processing, current_results,
                 captured_frame, current_timestamp, result_image,
                 camera_paused, camera, btn_state, btn_cmd, latest_analysis,
                 tkqueue, clock, pc, wpc, run, http_capture, ui,
                 published, rl_pc, rl, resp_latest, ri_pc, resp_image,
                 probe, resp_status, configvars, camvars, preview_loop,
                    received, stamp, relay_http >>

\* check_connection: requests.get(.../status); another status or an
\* exception returns False
PollStatus ==
    /\ poll.pc = "check_status"
    /\ \E outcome \in Outcomes :
           /\ poll' = IF outcome = "ok"
                      THEN [poll EXCEPT !.pc = "check_latest"]
                      ELSE [poll EXCEPT !.pc = "store", !.connected = FALSE]
           /\ observed' = Failed(outcome)
    /\ UNCHANGED << latest_data, emitted >>
    /\ EdgeUnchanged

ProbeConnectedAlways(outcome) == TRUE
\* check_connection: True only when the data probe answers 200
ProbeConnected(outcome) == outcome = "ok"

\* check_connection: requests.get(.../latest) right after the status probe
PollProbe ==
    /\ poll.pc = "check_latest"
    /\ \E outcome \in Outcomes :
           /\ poll' = [poll EXCEPT !.pc = "store",
                                   !.connected = ProbeConnected(outcome)]
           /\ observed' = [Failed(outcome) EXCEPT !.probe_failed = outcome # "ok"]
    /\ UNCHANGED << latest_data, emitted >>
    /\ EdgeUnchanged

ChangedNever(connected, old_connected) == FALSE
\* if connected != old_connected
Changed(connected, old_connected) == connected # old_connected

\* old_connected = latest_data.get("connected"); latest_data["connected"] =
\* connected; the event of a change; then "if connected:"
PollStore ==
    /\ poll.pc = "store"
    /\ poll' = [poll EXCEPT !.old_connected = latest_data.connected,
                            !.pc = IF poll.connected THEN "fetch" ELSE "not_connected"]
    /\ latest_data' = [latest_data EXCEPT !.connected = poll.connected]
    /\ emitted' = IF Changed(poll.connected, latest_data.connected)
                  THEN Append(emitted, StatusEvent(poll.connected))
                  ELSE emitted
    /\ UNCHANGED observed
    /\ EdgeUnchanged

NotConnectedSilent == << >>
\* else: socketio.emit("connection_status", {"connected": False})
NotConnectedEvents == << StatusEvent(FALSE) >>

PollNotConnected ==
    /\ poll.pc = "not_connected"
    /\ emitted' = emitted \o NotConnectedEvents
    /\ poll' = [poll EXCEPT !.pc = "sleep"]
    /\ UNCHANGED << latest_data, observed >>
    /\ EdgeUnchanged

AfterCacheUpdateAlwaysImage(data) == "image"
\* if data.get("image_available", False): the image request, or new_data at once
AfterCacheUpdate(data) == IF data.image_available THEN "image" ELSE "new_data"

IsNewAlways(timestamp, last_update) == TRUE
\* if data.get("timestamp") != latest_data.get("last_update")
IsNew(timestamp, last_update) == timestamp # last_update

\* requests.get(.../latest, timeout=5): the comparison of the timestamps and
\* the three fields taken over from a new answer
PollFetch ==
    /\ poll.pc = "fetch"
    /\ \E outcome \in Outcomes :
           /\ IF outcome = "ok"
              THEN LET data == EdgeLatest
                   IN  /\ IF IsNew(data.timestamp, latest_data.last_update)
                          THEN /\ latest_data' =
                                      [latest_data EXCEPT
                                           !.last_update = data.timestamp,
                                           !.last_results = data.segments,
                                           !.total_volume = data.total_volume]
                               /\ poll' = [poll EXCEPT
                                      !.data = data,
                                      !.pc = AfterCacheUpdate(data)]
                          ELSE /\ latest_data' = latest_data
                               /\ poll' = [poll EXCEPT !.data = data,
                                                       !.pc = "heartbeat"]
                       /\ observed' =
                              [observed EXCEPT
                                   !.fetched = @ \cup {data.timestamp}]
              ELSE /\ latest_data' = latest_data
                   /\ poll' = [poll EXCEPT
                          !.pc = IF outcome = "exception"
                                 THEN "except" ELSE "heartbeat"]
                   /\ observed' = Failed(outcome)
    /\ UNCHANGED emitted
    /\ EdgeUnchanged

\* what GET /api/latest_image of the edge answers
EdgeImageStatus == IF latest_analysis.image = NoImage THEN 404 ELSE 200

\* requests.get(.../latest_image, timeout=5); last_image only from a 200
PollImage ==
    /\ poll.pc = "image"
    /\ \E outcome \in Outcomes :
           /\ IF outcome = "ok" /\ EdgeImageStatus = 200
              THEN latest_data' =
                       [latest_data EXCEPT !.last_image = latest_analysis.image]
              ELSE latest_data' = latest_data
           /\ poll' = [poll EXCEPT
                  !.pc = IF outcome = "exception" THEN "except" ELSE "new_data"]
           /\ observed' =
                  Failed(IF outcome = "ok" /\ EdgeImageStatus # 200
                         THEN "error_status" ELSE outcome)
    /\ UNCHANGED emitted
    /\ EdgeUnchanged

\* socketio.emit("new_data", {...})
PollNewData ==
    /\ poll.pc = "new_data"
    /\ emitted' = Append(emitted, NewDataEvent(latest_data))
    /\ observed' = [observed EXCEPT
                        !.new_data = Remember(@, latest_data.last_update)]
    /\ poll' = [poll EXCEPT !.pc = "heartbeat"]
    /\ UNCHANGED latest_data
    /\ EdgeUnchanged

\* socketio.emit("connection_status", {"connected": True})
PollHeartbeat ==
    /\ poll.pc = "heartbeat"
    /\ emitted' = Append(emitted, StatusEvent(TRUE))
    /\ poll' = [poll EXCEPT !.pc = "sleep"]
    /\ UNCHANGED << latest_data, observed >>
    /\ EdgeUnchanged

ExceptEventsReversed == << StatusEvent(FALSE), ErrorEvent >>
\* except: emit connection_error, then connection_status {"connected": False}
ExceptEvents == << ErrorEvent, StatusEvent(FALSE) >>

PollExcept ==
    /\ poll.pc = "except"
    /\ emitted' = emitted \o ExceptEvents
    /\ poll' = [poll EXCEPT !.pc = "sleep"]
    /\ UNCHANGED << latest_data, observed >>
    /\ EdgeUnchanged

AfterSleepStays == "sleep"
\* while True: after time.sleep the loop is at its top again
AfterSleep == "check_status"

\* time.sleep(POLLING_INTERVAL), and the next cycle begins
PollSleep ==
    /\ poll.pc = "sleep"
    /\ poll' = [poll EXCEPT !.pc = AfterSleep, !.data = NoResponse]
    /\ emitted' = << >>
    /\ observed' =
           [observed EXCEPT
                !.last_connected = poll.connected,
                !.last_fetched =
                    IF poll.data = NoResponse THEN NoResponse
                    ELSE [timestamp |-> poll.data.timestamp],
                !.before = latest_data,
                !.failure = FALSE,
                !.probe_failed = FALSE]
    /\ UNCHANGED latest_data
    /\ EdgeUnchanged

PollSteps ==
    \/ PollStatus
    \/ PollProbe
    \/ PollStore
    \/ PollNotConnected
    \/ PollFetch
    \/ PollImage
    \/ PollNewData
    \/ PollHeartbeat
    \/ PollExcept
    \/ PollSleep

\* the snapshot of an earlier run, published at second 1
EarlierSnapshot ==
    LET results ==
            [i \in 1..Len(SceneSmallSection.sections) |->
                 SectionData(DefaultRatios, 1, i, SceneSmallSection.sections[i])]
        segments == ApiSegments(results)
    IN  [timestamp |-> 1,
         image |-> EncodeImage(ResultImage(SceneSmallSection)),
         segments |-> segments,
         total_volume |-> TotalVolume(segments, Len(segments))]

\* the edge has a captured frame to analyze (after master.py 669), with or
\* without an earlier publication
Captured(frames) ==
    /\ ConfigDefaults
    /\ CameraStart
    /\ RelayStart
    /\ app_instance = TRUE
    /\ cement_ratios = DefaultRatios
    /\ is_processing = TRUE
    /\ current_results = << >>
    /\ captured_frame \in frames
    /\ \E earlier \in BOOLEAN :
           /\ latest_analysis = IF earlier THEN EarlierSnapshot ELSE EmptyAnalysis
           /\ published = IF earlier THEN {EarlierSnapshot} ELSE {}
           /\ clock = IF earlier THEN 2 ELSE 1
           /\ current_timestamp = clock
           /\ stamp = [t \in Threads |-> IF t = 1 THEN clock ELSE None]
    /\ result_image = NoImage
    /\ camera_paused = FALSE
    /\ camera = "opened"
    /\ btn_state = "disabled"
    /\ btn_cmd = "capture"
    /\ tkqueue = << [cb |-> "do_analyze", run |-> 1] >>
    /\ pc = [t \in Threads |-> "idle"]
    /\ wpc = [t \in Threads |-> "none"]
    /\ run = [t \in Threads |-> t = 1]
    /\ http_capture = [t \in ApiThreads |-> NoResponse]
    /\ ui = UiIdle
    /\ rl_pc = "idle"
    /\ rl = EmptyAnalysis
    /\ resp_latest = NoResponse
    /\ ri_pc = "idle"
    /\ resp_image = NoResponse
    /\ probe = NoProbe

InitRelay == Captured({SceneTwoSections})

\* the relay polling an edge that analyzes and publishes
NextRelay ==
    \/ PollSteps
    \/ NextMeasure

SpecRelay == InitRelay /\ [][NextRelay]_vars

\* the polling thread keeps running: every request has a timeout
SpecRelayLive == SpecRelay /\ WF_vars(PollSteps)

\* ------------------------------------------------------ claims on the relay
\* the cycle has emitted all its events and is about to sleep
CycleEnd == poll.pc = "sleep"
StatusEvents == {i \in 1..Len(emitted) : emitted[i].event = "connection_status"}
NewDataSent == {i \in 1..Len(emitted) : emitted[i].event = "new_data"}
Count(seq, x) == Cardinality({i \in 1..Len(seq) : seq[i] = x})
\* this cycle and the one before it both fetched, and the same timestamp
SameTimestampAgain ==
    /\ poll.data # NoResponse
    /\ observed.last_fetched # NoResponse
    /\ poll.data.timestamp = observed.last_fetched.timestamp

\* C13: a connected cycle that fetches the timestamp the connected cycle before
\* it fetched broadcasts no new_data; while every request succeeded, exactly
\* one new_data was broadcast for each non-null timestamp fetched.
C13_RelaySyncIsIdempotent ==
    CycleEnd =>
        /\ SameTimestampAgain => NewDataSent = {}
        /\ ~observed.failed =>
               /\ \A ts \in observed.fetched \ {None} :
                      Count(observed.new_data, ts) = 1
               /\ \A i \in 1..Len(observed.new_data) :
                      observed.new_data[i] \in observed.fetched \ {None}

C13_Witness ==
    /\ CycleEnd
    /\ ~observed.failed
    /\ SameTimestampAgain
    /\ observed.fetched = {1, 2}
    /\ observed.new_data = << 1, 2 >>

\* the cached result: latest_data without its connected flag
Cache(data) ==
    << data.last_image, data.last_results, data.last_update, data.total_volume >>

\* C14: in a cycle whose status probe succeeds and whose data probe in
\* check_connection fails, connected is false, connection_status{false} is
\* broadcast, no new_data is broadcast and the cache is not modified.
C14_FailedProbeMeansNotConnected ==
    (CycleEnd /\ observed.probe_failed) =>
        /\ ~poll.connected
        /\ ~latest_data.connected
        /\ \E i \in StatusEvents : emitted[i] = StatusEvent(FALSE)
        /\ NewDataSent = {}
        /\ Cache(latest_data) = Cache(observed.before)

C14_Witness ==
    /\ CycleEnd
    /\ observed.probe_failed
    /\ observed.last_connected
    /\ observed.before.last_update # None
    /\ latest_analysis.timestamp # observed.before.last_update

\* C15: a cycle in which any request failed leaves latest_data["connected"]
\* false at its end.
C15_AnyFailureLeavesNotConnected ==
    (CycleEnd /\ observed.failure) => ~latest_data.connected

\* C16: a cycle whose connected value differs from the previous cycle's
\* broadcasts connection_status with the new value before any new_data; a
\* cycle whose value does not differ broadcasts connection_status once, last.
C16_ChangeIsBroadcastFirst ==
    CycleEnd =>
        IF poll.connected # observed.last_connected
        THEN /\ emitted # << >>
             /\ emitted[1] = StatusEvent(poll.connected)
             /\ \A i \in NewDataSent : i > 1
        ELSE /\ Cardinality(StatusEvents) = 1
             /\ emitted[Len(emitted)].event = "connection_status"

C16_Witness ==
    /\ CycleEnd
    /\ poll.connected /\ ~observed.last_connected
    /\ NewDataSent # {}
    /\ observed.before.last_update # None

\* C17: every cycle, whatever its outcome, has broadcast at least one
\* connection_status when the loop sleeps.
C17_HeartbeatEveryCycle == CycleEnd => StatusEvents # {}

C17_Witness ==
    /\ CycleEnd
    /\ ~poll.connected /\ ~observed.last_connected
    /\ observed.failure
    /\ emitted = << StatusEvent(FALSE) >>

\* C18: every connection_error is immediately followed by
\* connection_status{false}, and neither connection_status{true} nor new_data
\* follows later in the cycle.
C18_ErrorForcesNotConnected ==
    \A i \in 1..Len(emitted) :
        emitted[i] = ErrorEvent =>
            /\ i < Len(emitted)
            /\ emitted[i + 1] = StatusEvent(FALSE)
            /\ \A j \in (i + 2)..Len(emitted) :
                   /\ emitted[j] # StatusEvent(TRUE)
                   /\ emitted[j].event # "new_data"

C18_Witness ==
    /\ CycleEnd
    /\ emitted = << StatusEvent(TRUE), ErrorEvent, StatusEvent(FALSE) >>

\* C19: the poll loop never terminates: after any outcome of a cycle it sleeps
\* once and starts another cycle, so cycles are executed infinitely often.
C19_PollLoopNeverTerminates ==
    /\ []<>(poll.pc = "sleep")
    /\ []<>(poll.pc = "check_status")
    /\ [][/\ (poll.pc = "sleep" /\ poll'.pc # "sleep")
                 => poll'.pc = "check_status"
          /\ (poll'.pc = "check_status" /\ poll.pc # "check_status")
                 => poll.pc = "sleep"]_vars

C19_Witness ==
    /\ poll.pc = "check_status"
    /\ observed.failed
    /\ observed.last_connected
    /\ observed.before.last_update # None

\* ------------------------------------------------- claims on the sentinel
\* C20: while no timestamp has been published, GET /api/latest answers
\* timestamp null, no segments, total volume zero and image_available false,
\* and GET /api/status answers has_results false; once a snapshot has been
\* published has_results is true from then on and no later answer of
\* GET /api/latest has a null timestamp.
C20_NoDataUntilFirstPublication ==
    /\ [](latest_analysis.timestamp = None =>
              /\ resp_latest \in {NoResponse, NoDataResponse}
              /\ resp_status # NoResponse => ~resp_status.has_results)
    /\ [](published # {} => HasResults)
    /\ [][/\ HasResults => HasResults'
          /\ (HasResults /\ resp_status = NoResponse /\ resp_status' # NoResponse)
                 => resp_status'.has_results
          /\ (HasResults /\ resp_latest' # NoResponse
                /\ (GetLatestCheck \/ resp_latest' # resp_latest))
                 => resp_latest'.timestamp # None]_vars

C20_Witness ==
    /\ published # {}
    /\ resp_status # NoResponse /\ resp_status.has_results
    /\ resp_latest # NoResponse /\ resp_latest.timestamp # None

\* ------------------------------------------------- claims on the camera
\* C25: after a failed frame read the camera session is reinitialised before
\* the controller is back to Idle: while restart_camera of a run is still to
\* finish, the run has not yet reset is_processing.
C25_ReinitFinishedBeforeIdle ==
    \A t \in Threads :
        wpc[t] \in {"dc_restart", "dc_sleep", "dc_reopen"} => run[t]

\* C27: the result-display flag does not block triggers: the gate of
\* capture_image decides on is_processing alone, so a call made while the
\* controller is Idle and camera_paused is true is accepted and starts a run.
C27_PausedDoesNotBlockTriggers ==
    [][\A t \in Threads :
           /\ (pc[t] = "ci_check" /\ pc'[t] # "ci_check")
                  => pc'[t] = IF is_processing THEN "ci_ignored" ELSE "ci_set"
           /\ (pc[t] = "ci_set" /\ pc'[t] # "ci_set")
                  => (is_processing' /\ run'[t] /\ pc'[t] = "ci_spawn")
           /\ (pc[t] = "ci_spawn" /\ pc'[t] # "ci_spawn")
                  => wpc'[t] = "dc_reset"]_vars

\* a run started while the result of the run before it is still displayed
C27_Witness ==
    /\ camera_paused
    /\ pc[UiThread] = "idle"
    /\ tkqueue = << >>
    /\ \E t \in Threads : ActiveRuns = {t} /\ wpc[t] = "dc_reset"

\* ------------------------------------------------ the primary detection
\* scores the first model can give its candidates, in 1e-4
ScoreSamples == {5000, 7001, 8000, 9100, 9999}
\* instances.scores of one to MaxCandidates candidates, in output order
CandidateScores ==
    UNION {[1..n -> ScoreSamples] : n \in 1..MaxCandidates}

\* detect_rebar (master.py 748-756) on the scores of its candidates: best_idx,
\* counted from 1, and best_score
SelectPrimary ==
    \E scores \in CandidateScores :
        /\ probe' = [scores |-> scores,
                     best_idx |-> ArgMax(scores),
                     best_score |-> scores[ArgMax(scores)]]
        /\ UNCHANGED << app_instance, cement_ratios, is_processing,
                        current_results, captured_frame, current_timestamp,
                        result_image, camera_paused, camera, btn_state, btn_cmd,
                        latest_analysis, tkqueue, clock, pc, wpc, run,
                        http_capture, ui, published, rl_pc, rl, resp_latest,
                        ri_pc, resp_image, resp_status, configvars,
                        relayvars, camvars, preview_loop,
                    received, stamp, relay_http >>

SpecPrimary == Init /\ [][SelectPrimary]_vars

\* C29: with one or more candidates the selected primary box has the maximum
\* score, and among candidates of that score it is the one of smallest index.
C29_PrimaryIsFirstMaximum ==
    probe # NoProbe =>
        /\ probe.best_idx \in 1..Len(probe.scores)
        /\ probe.best_score = probe.scores[probe.best_idx]
        /\ \A j \in 1..Len(probe.scores) : probe.scores[j] <= probe.best_score
        /\ \A j \in 1..Len(probe.scores) :
               probe.scores[j] = probe.best_score => probe.best_idx <= j

\* three candidates, the maximum twice, not at the first place
C29_Witness ==
    /\ probe # NoProbe
    /\ probe.scores = << 8000, 9100, 9100 >>
    /\ probe.best_idx = 2

\* ------------------------------------------------- claims on the image
\* C21: while no publication is in progress, GET /api/latest_image answers the
\* encoded image exactly when GET /api/latest reports image_available true,
\* and 404 exactly when it reports image_available false.
C21_ImageServedIffAvailable ==
    ~Publishing =>
        /\ EdgeLatest.image_available <=> EdgeImageStatus = 200
        /\ ~EdgeLatest.image_available <=> EdgeImageStatus = 404

\* a publication whose image could not be converted: a timestamp and no image
C21_Witness ==
    /\ ~Publishing
    /\ published # {}
    /\ latest_analysis.timestamp # None
    /\ latest_analysis.image = NoImage
    /\ resp_image = [status |-> 404, image |-> NoImage]
    /\ resp_latest # NoResponse /\ resp_latest.timestamp # None
    /\ ~resp_latest.image_available

\* --------------------------------------------------- claims on the misses
\* a frame on which the first model finds nothing although the second would
SceneSectionsOnly ==
    [primary |-> << >>, sections |-> << Sec(10, 10, 30, 50, 9530) >>]

MissScenes == MeasureScenes \cup {SceneSectionsOnly}

InitMiss == Captured(MissScenes)

\* one analysis of a captured frame, after an earlier publication or none
SpecMiss == InitMiss /\ [][NextMeasure]_vars

\* no primary candidate, or no section
Miss(frame) ==
    frame # NoFrame /\ (Len(frame.primary) = 0 \/ Len(frame.sections) = 0)

\* C30: a run that ends in a detection miss publishes nothing: without a
\* primary candidate the section stage is not run, without sections nothing is
\* measured, the frame is kept, and the published snapshot stays exactly what
\* it was; a publication only happens in a run with at least one segment.
C30_MissPublishesNothing ==
    [][/\ Miss(captured_frame) =>
              /\ latest_analysis' = latest_analysis
              /\ published' = published
              /\ captured_frame' = captured_frame
              /\ current_results' = << >>
              /\ pc'[UiThread] \in {"idle", "an_finally", "pv_read"}
       /\ latest_analysis' # latest_analysis =>
              /\ Len(current_results) >= 1
              /\ ~Miss(captured_frame)]_vars

\* the run of a frame without sections is over, after an earlier publication
C30_Witness ==
    /\ captured_frame = SceneNoSections
    /\ ~is_processing
    /\ camera_paused
    /\ pc[UiThread] = "idle"
    /\ latest_analysis = EarlierSnapshot
    /\ published = {EarlierSnapshot}

\* ------------------------------------------- claims on the camera session
\* requests that change the camera only
CameraBodies ==
    [detection_threshold : {Absent}, external_camera_index : {Number(0), Number(100)}]

\* the contexts that touch self.camera: the preview, the capture workers and
\* the requests of POST /api/config
NextCamera ==
    \/ CreateApp
    \/ PreviewSteps
    \/ CaptureSteps
    \/ TkEnableButton
    \/ UpdateConfigFrom(CameraBodies) /\ UNCHANGED relay_http
    \/ UpdateConfigReturns

SpecCamera == Init /\ [][NextCamera]_vars

\* C22: a run that started after the last request that changed camera_index
\* reads its frame from a session opened on the index now configured.
C22_RunReadsFromNewIndex ==
    [][\A t \in Threads :
           (t \in since /\ wpc[t] = "dc_read" /\ wpc'[t] = "dc_stamp")
               => camera_session = camera_index]_vars

\* the contexts inside a call on the camera handle: the preview's read on
\* the Tk thread, a worker's frame reads, a worker's reopening and a worker's
\* preview read
CameraUsers ==
    {<< "preview", t >> : t \in {u \in {UiThread} : pc[u] = "pv_read"}}
    \cup {<< "worker", t >> : t \in {u \in Threads :
                 wpc[u] \in {"dc_read", "dc_reopen", "rc_pvread"}}}

\* the step replaces or releases the handle and is not a step of a worker
\* whose run is on
TakenFromRun ==
    /\ \E t \in Threads : run[t]
    /\ camera' # camera
    /\ \A t \in Threads : run[t] => wpc'[t] = wpc[t]

\* at most one context is inside a call on the camera handle
OneUserAtATime == Cardinality(CameraUsers) <= 1

\* C23: at most one context is inside a call on the camera handle, and while
\* a run is on nobody but its worker releases or replaces the handle.
C23_CameraIsExclusive ==
    /\ []OneUserAtATime
    /\ [][~TakenFromRun]_vars


\* ------------------------------------------------ claims on the result view
\* a preview refresh is inside its read of a frame
PreviewReading ==
    \/ pc[UiThread] = "pv_read"
    \/ \E t \in Threads : wpc[t] = "rc_pvread"

\* C28: while camera_paused holds no preview refresh reads a frame, and
\* camera_paused falls from true to false only in resume_camera_preview called
\* by the operator's press of the button.
C28_PausedUntilExplicitResume ==
    /\ [](camera_paused => ~PreviewReading)
    /\ [][(camera_paused /\ ~camera_paused') => ResumeCameraPreview]_vars


\* ------------------------------------------------ claims on the push channel
ConnectEventsStatusOnly(data) ==
    << [event |-> "connection_status", connected |-> data.connected,
        last_update |-> None] >>

\* emit('connection_status', {"connected": latest_data["connected"],
\*                            "last_update": latest_data["last_update"]})
ConnectEvents(data) ==
    << [event |-> "connection_status", connected |-> data.connected,
        last_update |-> data.last_update] >>

\* @socketio.on('connect'): a client opens the push channel
socket_connect ==
    /\ received = << >>
    /\ received' = ConnectEvents(latest_data)
    /\ UNCHANGED << app_instance, cement_ratios, is_processing, current_results,
                    captured_frame, current_timestamp, result_image,
                    camera_paused, camera, btn_state, btn_cmd, latest_analysis,
                    tkqueue, clock, pc, wpc, run, http_capture, ui,
                    published, rl_pc, rl, resp_latest, ri_pc, resp_image,
                    probe, resp_status, configvars, relayvars, camvars,
                    preview_loop, stamp, relay_http >>

\* @socketio.on('disconnect'): the client is gone
socket_disconnect ==
    /\ received # << >>
    /\ received' = << >>
    /\ UNCHANGED << app_instance, cement_ratios, is_processing, current_results,
                    captured_frame, current_timestamp, result_image,
                    camera_paused, camera, btn_state, btn_cmd, latest_analysis,
                    tkqueue, clock, pc, wpc, run, http_capture, ui,
                    published, rl_pc, rl, resp_latest, ri_pc, resp_image,
                    probe, resp_status, configvars, relayvars, camvars,
                    preview_loop, stamp, relay_http >>

\* clients come and go while the relay polls an edge that publishes
NextPush ==
    \/ NextRelay
    \/ socket_connect
    \/ socket_disconnect

SpecPush == InitRelay /\ [][NextPush]_vars

\* C26: the step in which a client connects hands it exactly one event, a
\* connection_status whose connected and last_update are the relay's stored
\* flag and cached timestamp of that moment.
C26_ConnectSendsSnapshot ==
    [][(received = << >> /\ received' # << >>) =>
           /\ Len(received') = 1
           /\ received'[1].event = "connection_status"
           /\ received'[1].connected = latest_data.connected
           /\ received'[1].last_update = latest_data.last_update]_vars

\* a client connected after the relay had cached a publication's timestamp
C26_Witness ==
    /\ received # << >>
    /\ received[1].connected
    /\ received[1].last_update # None
    /\ received[1].last_update = latest_data.last_update

\* ------------------------------------------------- claims on the way back to Idle
\* a configuration file that names the large tier only: the size a section
\* falls back to is no key of it, and the lookup raises KeyError
LargeOnly == << Tier("large", 1, 3, 5, 20, 50) >>

InitIdle ==
    /\ InitCommon
    /\ cement_ratios \in {DefaultRatios, LargeOnly}

\* the steps of the thread that runs capture_image for t
GateSteps(t) ==
    \/ CaptureCheck(t)
    \/ CaptureRejected(t)
    \/ CaptureSet(t)
    \/ CaptureSpawn(t)

\* the steps of the _do_capture thread started for t
WorkerSteps(t) ==
    \/ DoCaptureReset(t)
    \/ DoCaptureCamera(t)
    \/ DoCaptureRead(t)
    \/ DoCaptureStamp(t)
    \/ DoCaptureSchedule(t)
    \/ DoCaptureFail(t)
    \/ DoCaptureRestart(t)
    \/ DoCaptureReopen(t)
    \/ DoCaptureReopened(t)
    \/ RestartUpdatePreview(t)
    \/ RestartUpdatePreviewRead(t)

\* the callbacks root.after(0, ...) queued: the Tk main loop runs them in order
TkCallbacks ==
    \/ TkEnableButton
    \/ DoAnalyzeStart

\* a handler the Tk thread is inside goes on to its end
TkHandlerSteps ==
    \/ SectionLoop
    \/ SectionsDone
    \/ UpdateApiDataBuild
    \/ UpdateApiDataImage
    \/ UpdateApiDataTimestamp
    \/ UpdateApiDataSegments
    \/ UpdateApiDataTotal
    \/ DoAnalyzeFinally
    \/ UpdatePreviewRead

\* threads run on, and the Tk main loop comes back to its queue
SpecIdle ==
    /\ InitIdle /\ [][Next]_vars
    /\ \A t \in Threads : WF_vars(GateSteps(t)) /\ WF_vars(WorkerSteps(t))
    /\ WF_vars(TkHandlerSteps)
    /\ SF_vars(TkCallbacks)

\* C24: the run of every accepted trigger ends with is_processing false, and
\* capture_image called while is_processing is false accepts the trigger.
C24_EveryRunReturnsToIdle ==
    /\ \A t \in Threads : run[t] ~> (~run[t] /\ ~is_processing)
    /\ [][\A t \in Threads :
              (pc[t] = "ci_check" /\ pc'[t] # "ci_check" /\ ~is_processing)
                  => pc'[t] = "ci_set"]_vars

\* a run whose analysis raised KeyError on its first section has ended: the
\* controller is Idle with nothing measured, and the next trigger is accepted
C24_Witness ==
    /\ ~is_processing /\ \A t \in Threads : ~run[t]
    /\ captured_frame # NoFrame /\ Len(captured_frame.sections) > 0
    /\ Len(captured_frame.primary) > 0
    /\ current_results = << >>
    /\ ~HasKey(cement_ratios,
               SizeCategory(cement_ratios,
                            diameter_mm(captured_frame.sections[1].box)))
    /\ \E t \in Threads : pc[t] = "ci_set"

\* ------------------------------------------------ claims on the image request
\* C31: the relay is about to request the edge's latest image only in a
\* connected cycle whose fetched timestamp differs from the timestamp cached
\* before the fetch and whose fetched image_available flag is true.
C31_ImageRequestedOnlyForNewImage ==
    poll.pc = "image" =>
        /\ poll.connected /\ latest_data.connected
        /\ poll.data # NoResponse
        /\ poll.data.image_available
        /\ poll.data.timestamp # observed.before.last_update
        /\ poll.data.timestamp = latest_data.last_update

\* the image of a second publication is about to be requested
C31_Witness ==
    /\ poll.pc = "image"
    /\ observed.before.last_update = 1
    /\ poll.data.timestamp = 2

\* ------------------------------------------------ claims on the end of a run
\* C32: when a run that built segments for publication resets is_processing,
\* the published snapshot already carries the timestamp that run took at its
\* capture.
C32_PublicationPrecedesIdle ==
    [][(pc[UiThread] = "an_finally" /\ pc'[UiThread] = "idle"
            /\ ui.segments # << >>)
           => latest_analysis.timestamp = stamp[ui.run]]_vars

\* ------------------------------------------------ claims on the relay's cache
\* the timestamps new_data events have carried so far
Announced == {observed.new_data[i] : i \in 1..Len(observed.new_data)}

\* C33: every timestamp the relay stores in latest_data["last_update"] is
\* carried by a new_data event of the same cycle or of a later one.
C33_CachedTimestampIsAnnounced ==
    \A ts \in 1..MaxClock :
        (latest_data.last_update = ts) ~> (ts \in Announced)

\* the snapshots the edge has made visible: the completed ones, and the one
\* being written once its timestamp is in place (its image is written first)
Visible ==
    published \cup
    (IF latest_analysis.timestamp \in {s.timestamp : s \in published}
     THEN {} ELSE {latest_analysis})

\* the relay's cached image is the image of the snapshot whose timestamp it cached
ImageOfCachedSnapshot ==
    \E s \in Visible :
        /\ s.timestamp = latest_data.last_update
        /\ s.image = latest_data.last_image

\* C34: when the loop sleeps, a cached image is the image of the snapshot
\* whose timestamp is cached, and a new_data event of the cycle says has_image
\* only when the image of the snapshot it announces was obtained.
C34_CachedImageBelongsToCachedTimestamp ==
    CycleEnd =>
        /\ latest_data.last_image # NoImage => ImageOfCachedSnapshot
        /\ \A i \in NewDataSent : emitted[i].has_image => ImageOfCachedSnapshot

\* the last connection_status event of the cycle
LastStatus == emitted[CHOOSE i \in StatusEvents : \A j \in StatusEvents : j <= i]

\* C35: when the loop sleeps, the connected value of the last
\* connection_status broadcast is the relay's stored connected flag, the one
\* GET /api/connection_status reports.
C35_LastStatusIsStoredFlag ==
    CycleEnd =>
        /\ StatusEvents # {}
        /\ LastStatus.connected = latest_data.connected

\* the edge has nothing left to publish: no analysis is queued or under way
EdgeQuiet ==
    /\ ~is_processing
    /\ pc[UiThread] \in {"idle", "pv_read"}
    /\ \A i \in 1..Len(tkqueue) : tkqueue[i].cb # "do_analyze"

\* the relay's cache holds what the edge serves, and the relay says connected
Synced ==
    /\ latest_data.connected
    /\ latest_data.last_update = latest_analysis.timestamp
    /\ latest_data.last_results = latest_analysis.segments
    /\ latest_data.total_volume = latest_analysis.total_volume

\* C36: if from some point on no request of the relay fails and the edge
\* publishes nothing more, then from some point on the relay's cached
\* timestamp, segments and total volume are the edge's and connected is true.
C36_RelayConverges ==
    <>[](EdgeQuiet /\ ~observed.failure) => <>[]Synced

\* ------------------------------------------- claims on the forwarded operations
\* everything but the relay's answer
othervars ==
    << app_instance, cement_ratios, is_processing, current_results,
       captured_frame, current_timestamp, result_image, camera_paused, camera,
       btn_state, btn_cmd, latest_analysis, tkqueue, clock, pc, wpc, run,
       http_capture, ui, published, rl_pc, rl, resp_latest, ri_pc, resp_image,
       probe, resp_status, configvars, relayvars, camvars, preview_loop,
       received, stamp >>

\* if not latest_data["connected"]: return ..., 503
NotConnected(op) ==
    [op |-> op, status |-> 503, forwarded |-> FALSE, edge |-> None]

\* except Exception: return {"error": "Connection error: ..."}, 500
ConnectionError(op) ==
    [op |-> op, status |-> 500, forwarded |-> TRUE, edge |-> None]

PassedOnAsSuccess(status) == 200
\* 200 is answered with 200, any other response with response.status_code
PassedOn(status) == IF status = 200 THEN 200 ELSE status

Answered(op, status) ==
    [op |-> op, status |-> PassedOn(status), forwarded |-> TRUE, edge |-> status]

\* the bodies clients send to /api/set_config: one the edge accepts and one
\* whose threshold is no number
ForwardBodies ==
    {[detection_threshold |-> Number(50), external_camera_index |-> Absent],
     [detection_threshold |-> Text, external_camera_index |-> Absent]}

\* app.py POST /api/trigger_capture
RelayTriggerCapture ==
    /\ relay_http = NoResponse
    /\ IF ~latest_data.connected
       THEN /\ relay_http' = NotConnected("trigger_capture")
            /\ UNCHANGED othervars
       ELSE \E reached \in BOOLEAN :
                IF reached
                THEN \E t \in ApiThreads :
                         /\ TriggerCapture(t)
                         /\ relay_http' =
                                Answered("trigger_capture", http_capture'[t].status)
                ELSE /\ relay_http' = ConnectionError("trigger_capture")
                     /\ UNCHANGED othervars

\* app.py POST /api/set_config
RelaySetConfig ==
    /\ relay_http = NoResponse
    /\ IF ~latest_data.connected
       THEN /\ relay_http' = NotConnected("set_config")
            /\ UNCHANGED othervars
       ELSE \E reached \in BOOLEAN :
                IF reached
                THEN /\ UpdateConfigFrom(ForwardBodies)
                     /\ relay_http' = Answered("set_config", http_config'.status)
                ELSE /\ relay_http' = ConnectionError("set_config")
                     /\ UNCHANGED othervars

\* app.py GET /api/get_config
RelayGetConfig ==
    /\ relay_http = NoResponse
    /\ IF ~latest_data.connected
       THEN /\ relay_http' = NotConnected("get_config")
            /\ UNCHANGED othervars
       ELSE \E reached \in BOOLEAN :
                IF reached
                THEN /\ GetConfig
                     /\ relay_http' = Answered("get_config", 200)
                ELSE /\ relay_http' = ConnectionError("get_config")
                     /\ UNCHANGED othervars

\* the relay's answer has gone to the client
RelayReturns ==
    /\ relay_http # NoResponse
    /\ relay_http' = NoResponse
    /\ UNCHANGED othervars

\* the poll loop in front of an edge that has published nothing: it sets and
\* clears the connected flag and never finds new data
ConnectionSteps ==
    \/ PollStatus
    \/ PollProbe
    \/ PollStore
    \/ PollNotConnected
    \/ PollFetch
    \/ PollHeartbeat
    \/ PollExcept
    \/ PollSleep

\* clients of the relay, the poll loop, and the edge's handlers
NextForward ==
    \/ CreateApp
    \/ ConnectionSteps
    \/ RelayTriggerCapture
    \/ RelaySetConfig
    \/ RelayGetConfig
    \/ RelayReturns
    \/ UpdateConfigReturns

SpecForward == Init /\ [][NextForward]_vars

\* the edge was sent nothing: none of its handlers ran
NothingSent ==
    UNCHANGED << pc, http_capture, http_config, resp_config,
                 detection_threshold, camera_index, camera >>

\* C37: a forwarded operation called while connected is false answers 503
\* and sends the edge nothing; called while connected is true, an edge answer
\* that is not 200 is passed on with the edge's status, never as success.
C37_ForwardOnlyWhenConnected ==
    [][(relay_http = NoResponse /\ relay_http' # NoResponse) =>
           /\ ~latest_data.connected =>
                  /\ relay_http'.status = 503
                  /\ ~relay_http'.forwarded
                  /\ NothingSent
           /\ (latest_data.connected /\ relay_http'.edge \notin {None, 200}) =>
                  /\ relay_http'.status = relay_http'.edge
                  /\ relay_http'.status # 200]_vars

\* the edge refused a configuration and the relay passed its 500 on
C37_Witness ==
    /\ relay_http # NoResponse
    /\ relay_http.op = "set_config"
    /\ relay_http.forwarded
    /\ relay_http.edge = 500
    /\ relay_http.status = 500
    /\ latest_data.connected

\* ------------------------------------------------------------------- C38
\* the update_preview callbacks waiting in the timer queue: every chain has
\* one, except the one whose update_preview the Tk thread is executing
PendingPreviews ==
    IF pc[UiThread] = "pv_read" THEN preview_loop - 1 ELSE preview_loop

\* C38: at most one update_preview callback is pending in the timer queue at
\* any time, whatever start_preview, display of a result,
\* resume_camera_preview, restart_camera and camera reinitialisation did.
C38_OnePendingPreview == PendingPreviews <= 1

====
